---- MODULE Spec2Model ----
(***************************************************************************)
(* ENGRAM: the memory store, the signed hash chain, consolidation,        *)
(* metabolism, anchoring, prospective triggers, narrative and transplant, *)
(* modelled from src/engram (LanceStore path) with accept_proposal from   *)
(* src/engram_core.                                                       *)
(*                                                                         *)
(* Abstractions (stated once, used throughout):                            *)
(*  - SHA-256 is an ideal injective hash: content_hash is the tuple of    *)
(*    the hashed fields; the empty string is the empty tuple.             *)
(*  - An Ed25519 signature is the pair <<signer key, signed data>>: it    *)
(*    verifies under key k for data d iff it is exactly <<k, d>>.         *)
(*  - Time is a counter of instants; every MemoryUnit() construction      *)
(*    reads the clock and consumes one instant, so timestamps are unique. *)
(*    TicksPerDay instants make a day; ages are whole days.               *)
(*  - embed(text) is the text itself; cosine similarity is the table Sim. *)
(*  - salience is in hundredths, maintenance cost in CostUnit-ths.        *)
(***************************************************************************)
EXTENDS Integers, Sequences, FiniteSets, TLC

VARIABLES
    units,      \* LanceStore table "memories": id -> row
    now,        \* datetime.now(timezone.utc), in instants
    nextId,     \* next uuid4 to be drawn by MemoryUnit()
    newCount,   \* Consolidator._new_count
    earned,     \* Metabolism._earned_tokens
    packages,   \* transplant packages exported so far
    naclOK,     \* PyNaCl importable: Identity has a keypair
    llmOn,      \* an llm_fn is configured
    last,       \* what the last operation was given and returned
    rows,       \* the physical rows of the table while calls interleave
    calls,      \* caller -> the LanceStore call it is in, and where
    fired       \* ids Prospective.fire was called on (history)

vars == <<units, now, nextId, newCount, earned, packages, naclOK, llmOn, last,
          rows, calls, fired>>

(***************************************************************************)
(* Bounds of the model                                                     *)
(***************************************************************************)
MaxUnits == 3          \* MemoryUnit constructions explored
MaxDays == 1           \* whole days explored
MaxFacts == 2          \* length of an LLM answer explored
MaxPackages == 1       \* packages in flight explored
MaxRetrieval == 1      \* recalls per unit explored
RecalledOften == 9     \* retrieval_count of the unit of a persisted store

(***************************************************************************)
(* Configuration of the modelled instance (constructor arguments)          *)
(***************************************************************************)
MicroThreshold == 2    \* Consolidator(micro_threshold=...)
MaxTokens == 0         \* Metabolism(max_tokens=...)
EarnPerAction == 26    \* Metabolism(earn_per_action=...)
AnchorWindowDays == 1  \* Anchoring(anchor_window_days=...)

TicksPerDay == MaxUnits + 2
CostUnit == 1000 * (10 ^ MaxDays)

NoHash == <<>>
NoSig == <<>>
NoTs == 0
LocalKey == "L"
ForeignKey == "F"

Texts == {"a", "b"}
\* remember(content, type, salience) calls explored
RememberInputs == {<<"a", "episodic", 50>>, <<"b", "episodic", 90>>,
                   <<"a", "semantic", 90>>}

Today == now \div TicksPerDay

(***************************************************************************)
(* embed / cosine similarity, in hundredths                                *)
(***************************************************************************)
Sim(x, y) ==
    IF x = "" \/ y = "" THEN 0
    ELSE IF x = y THEN 100
    ELSE IF {x, y} = {"a", "b"} THEN 70
    ELSE 0

\* len(content.split())
WordCount(c) ==
    CASE c = "" -> 0
      [] c = "a" -> 20
      [] c = "b" -> 30
      [] OTHER -> 10

(***************************************************************************)
(* MemoryUnit                                                              *)
(***************************************************************************)
MemoryUnit(id, ts, type, content, emb) ==
    [id |-> id, type |-> type, content |-> content, timestamp |-> ts,
     embedding |-> emb, salience |-> 50, tags |-> {}, relations |-> <<>>,
     version |-> 1, prev_hash |-> NoHash, signature |-> NoSig,
     consolidated_ts |-> NoTs, trigger_condition |-> "",
     source_agent |-> "", trust_score |-> 100,
     maintenance_cost |-> 0, retrieval_count |-> 0,
     last_accessed |-> ts, active |-> TRUE]

content_hash(u) == <<"sha256", u.id, u.content, u.timestamp, u.prev_hash>>

(***************************************************************************)
(* Identity                                                                *)
(***************************************************************************)
public_key_b64 == IF naclOK THEN LocalKey ELSE ""

sign(data) == IF naclOK THEN <<LocalKey, data>> ELSE NoSig

\* fault variant of verify: a failed import of nacl counts as a valid signature
verify_fail_open(data, sig, pk) ==
    \/ ~naclOK
    \/ /\ sig # NoSig
       /\ sig[1] = (IF pk # "" THEN pk ELSE LocalKey)
       /\ sig[2] = data

verify(data, sig, pk) ==
    /\ naclOK
    /\ sig # NoSig
    /\ sig[1] = (IF pk # "" THEN pk ELSE LocalKey)
    /\ sig[2] = data

sign_memory(u) == sign(content_hash(u))

verify_memory(u, pk) ==
    IF u.signature = NoSig THEN FALSE
    ELSE verify(content_hash(u), u.signature, pk)

(***************************************************************************)
(* Sorting helpers: ascending by an integer key that is unique on S        *)
(***************************************************************************)
SortAsc(S, key) ==
    [k \in 1..Cardinality(S) |->
        CHOOSE x \in S : Cardinality({y \in S : key[y] < key[x]}) = k - 1]

\* the one element of a singleton: The({e(x) : x \in {v}}) is e with x bound to v
The(S) == CHOOSE y \in S : TRUE

Take(s, n) == IF Len(s) <= n THEN s ELSE SubSeq(s, 1, n)

Range(s) == {s[i] : i \in 1..Len(s)}

Ids(st) == DOMAIN st

(***************************************************************************)
(* LanceStore                                                              *)
(***************************************************************************)
EmbeddingDim == 384        \* _ensure_table(embedding_dim=384)
ZeroVector == "0"          \* [0.0] * 384

\* len(embedding): "" is the empty list, "w" a vector of another length
Dim(embedding) ==
    CASE embedding = "" -> 0
      [] embedding = "w" -> 2
      [] OTHER -> EmbeddingDim

\* the row of a unit: the embedding goes to the vector column, an empty
\* one as ZeroVector (the float columns are kept exact)
_unit_to_row(unit) ==
    [f \in (DOMAIN unit \ {"embedding"}) \cup {"vector"} |->
        IF f = "vector"
        THEN (IF unit.embedding = "" THEN ZeroVector ELSE unit.embedding)
        ELSE unit[f]]

_row_to_unit(row) ==
    [f \in (DOMAIN row \ {"vector"}) \cup {"embedding"} |->
        IF f = "embedding" THEN row.vector ELSE row[f]]

\* table.delete(id = ...)
delete(st, id) == [i \in Ids(st) \ {id} |-> st[i]]

\* table.add([row]) raises when the vector is not of the table's dimension
add_raises(row) == Dim(row.vector) # EmbeddingDim

\* a table is represented by the units its rows decode to; store deletes
\* the row of the id and adds the new row
store(st, u) ==
    [i \in Ids(st) \cup {u.id} |->
        IF i = u.id THEN _row_to_unit(_unit_to_row(u)) ELSE st[i]]

\* get(unit_id): the unit or None, as a set of at most one unit
get(st, id) == IF id \in Ids(st) THEN {st[id]} ELSE {}

\* rows sorted by timestamp, latest first
ByTimestampDesc(st, S) == SortAsc(S, [i \in S |-> 0 - st[i].timestamp])

query(st, type, active_only, min_salience, limit, unconsolidated_only) ==
    Take(ByTimestampDesc(st,
            {i \in Ids(st) :
                /\ active_only => st[i].active
                /\ type # "" => st[i].type = type
                /\ min_salience > 0 => st[i].salience >= min_salience
                /\ unconsolidated_only =>
                      (st[i].consolidated_ts = NoTs /\ st[i].type = "episodic")}),
         limit)

get_last_hash(st) ==
    IF Ids(st) = {} THEN NoHash
    ELSE st[ByTimestampDesc(st, Ids(st))[1]].prev_hash

\* an update_access that reinforces the unit as well
update_access_reinforce(st, id, t) ==
    IF id \in Ids(st)
    THEN [st EXCEPT ![id] = [@ EXCEPT !.retrieval_count = @ + 1,
                                      !.last_accessed = t, !.salience = 100]]
    ELSE st

update_access(st, id, t) ==
    IF id \in Ids(st)
    THEN store(st, [st[id] EXCEPT !.retrieval_count = @ + 1, !.last_accessed = t])
    ELSE st

\* a deactivate that drops the row instead of clearing its flag
deactivate_delete(st, id) == [i \in Ids(st) \ {id} |-> st[i]]

deactivate(st, id) ==
    IF id \in Ids(st) THEN store(st, [st[id] EXCEPT !.active = FALSE]) ELSE st

mark_consolidated(st, id, t) ==
    IF id \in Ids(st) THEN store(st, [st[id] EXCEPT !.consolidated_ts = t]) ELSE st

update_unit(st, u) == store(st, u)

\* a vector_search that finds nothing
vector_search_nothing(st, q, top_k, tb) == <<>>

\* cosine search over active rows: <<id, similarity>>, nearest first; rows at
\* the same distance come in an order the index does not specify (tb). A
\* query vector that is empty gives [], and so does one of another length
\* than the table's: the search raises and the exception is swallowed
vector_search(st, q, top_k, tb) ==
    IF q = "" \/ Dim(q) # EmbeddingDim THEN <<>>
    ELSE The({[k \in 1..Len(Take(ranked, top_k)) |->
                  <<ranked[k], Sim(q, st[ranked[k]].embedding)>>] :
              ranked \in {SortAsc({i \in Ids(st) : st[i].active},
                                  [i \in Ids(st) |->
                                      (0 - Sim(q, st[i].embedding)) * (MaxUnits + 2)
                                         + (IF tb = "lo" THEN i ELSE 0 - i)])}})

(***************************************************************************)
(* Identity.verify_chain over the units S of table st                      *)
(***************************************************************************)
RECURSIVE ChainLoop(_, _, _)
ChainLoop(st, ms, prev_hash) ==
    IF ms = <<>> THEN [valid |-> TRUE, id |-> 0]
    ELSE LET m == st[Head(ms)]
         IN IF m.prev_hash # prev_hash /\ prev_hash # NoHash
            THEN [valid |-> FALSE, id |-> m.id]
            ELSE IF m.signature # NoSig /\ ~verify_memory(m, "")
            THEN [valid |-> FALSE, id |-> m.id]
            ELSE ChainLoop(st, Tail(ms), content_hash(m))

ByTimestampAsc(st, S) == SortAsc(S, [i \in S |-> st[i].timestamp])

\* a verify_chain that walks the units newest first
verify_chain_newest_first(st, S) == ChainLoop(st, ByTimestampDesc(st, S), NoHash)

verify_chain(st, S) ==
    ChainLoop(st, ByTimestampAsc(st, S), NoHash)

(***************************************************************************)
(* Consolidator                                                            *)
(***************************************************************************)
\* what the llm call and the lenient JSON parse can yield: no array at all
\* (exception, null, no brackets, invalid JSON) or a list of facts
Fact(content, salience, cites, contradicts) ==
    [content |-> content, salience |-> salience,
     cites |-> cites, contradicts |-> contradicts]

Facts == {Fact("a", 90, TRUE, ""), Fact("b", 60, FALSE, "a"),
          Fact("", 60, TRUE, "a")}

FactLists == UNION {[1..n -> Facts] : n \in 0..MaxFacts}

LLMOutputs == {[ok |-> FALSE, facts |-> <<>>]}
                 \cup {[ok |-> TRUE, facts |-> fs] : fs \in FactLists}

TieBreaks == {"lo", "hi"}

NonEmptyFacts(facts) == {k \in 1..Len(facts) : facts[k].content # ""}

_handle_contradiction(st, contradiction_desc, tb) ==
    The({The({IF hits = {} THEN st
              ELSE deactivate(st, candidates[CHOOSE k \in hits :
                                                \A j \in hits : k <= j][1]) :
              hits \in {{k \in 1..Len(candidates) :
                            /\ candidates[k][2] > 75
                            /\ st[candidates[k][1]].type = "semantic"
                            /\ st[candidates[k][1]].active}}}) :
         candidates \in {vector_search(st, contradiction_desc, 5, tb)}})

distilled_from(episodes, fact) ==
    IF fact.cites THEN [k \in 1..Len(episodes) |-> <<episodes[k], "distilled_from">>]
    ELSE <<>>

\* the loop over the facts: st is the table so far, prev the running
\* prev_hash, created the ids created so far; unit k of the batch draws
\* id id0 + k and reads the clock at t0 + k
RECURSIVE ConsolidateFacts(_, _, _, _, _, _, _, _)
ConsolidateFacts(st, facts, episodes, prev, created, id0, t0, tb) ==
    IF facts = <<>> THEN [units |-> st, created |-> created]
    ELSE IF Head(facts).content = ""
    THEN ConsolidateFacts(st, Tail(facts), episodes, prev, created, id0, t0, tb)
    ELSE The({ConsolidateFacts(
                  store(IF Head(facts).contradicts # ""
                        THEN _handle_contradiction(st, Head(facts).contradicts, tb)
                        ELSE st,
                        unit),
                  Tail(facts), episodes, content_hash(unit),
                  Append(created, unit.id), id0, t0, tb) :
              unit \in {[MemoryUnit(id0 + Len(created), t0 + Len(created),
                                    "semantic", Head(facts).content,
                                    Head(facts).content)
                           EXCEPT !.salience = Head(facts).salience,
                                  !.relations = distilled_from(episodes, Head(facts)),
                                  !.prev_hash = prev]}})

RECURSIVE MarkAll(_, _, _)
MarkAll(st, episodes, t) ==
    IF episodes = <<>> THEN st
    ELSE MarkAll(mark_consolidated(st, Head(episodes), t), Tail(episodes), t)

\* fault variant of consolidate_batch: episodes are marked only when a fact
\* was stored
consolidate_batch_mark_if_created(st, episodes, out, id0, t0, tb) ==
    IF episodes = <<>> \/ ~llmOn \/ ~out.ok
    THEN [units |-> st, created |-> <<>>]
    ELSE The({[units |-> IF r.created = <<>> THEN r.units
                         ELSE MarkAll(r.units, episodes, t0 + Len(r.created)),
               created |-> r.created] :
              r \in {ConsolidateFacts(st, out.facts, episodes, get_last_hash(st),
                                      <<>>, id0, t0, tb)}})

\* fault variant of consolidate_batch: episodes are marked before the LLM
\* answer is parsed
consolidate_batch_mark_first(st, episodes, out, id0, t0, tb) ==
    IF episodes = <<>> \/ ~llmOn
    THEN [units |-> st, created |-> <<>>]
    ELSE IF ~out.ok
    THEN [units |-> MarkAll(st, episodes, t0), created |-> <<>>]
    ELSE The({[units |-> MarkAll(r.units, episodes, t0 + Len(r.created)),
               created |-> r.created] :
              r \in {ConsolidateFacts(st, out.facts, episodes, get_last_hash(st),
                                      <<>>, id0, t0, tb)}})

\* a consolidate_batch that builds every unit on the hash read at its start
consolidate_batch_unchained(st, episodes, out, id0, t0, tb) ==
    IF episodes = <<>> \/ ~llmOn \/ ~out.ok
    THEN [units |-> st, created |-> <<>>]
    ELSE The({[units |-> MarkAll([i \in Ids(r.units) |->
                                    IF i \in Range(r.created)
                                    THEN [r.units[i] EXCEPT !.prev_hash = get_last_hash(st)]
                                    ELSE r.units[i]],
                                 episodes, t0 + Len(r.created)),
               created |-> r.created] :
              r \in {ConsolidateFacts(st, out.facts, episodes, get_last_hash(st),
                                      <<>>, id0, t0, tb)}})

\* consolidate_batch(episodes): the table afterwards and the ids returned
consolidate_batch(st, episodes, out, id0, t0, tb) ==
    IF episodes = <<>> \/ ~llmOn \/ ~out.ok
    THEN [units |-> st, created |-> <<>>]
    ELSE The({[units |-> MarkAll(r.units, episodes, t0 + Len(r.created)),
               created |-> r.created] :
              r \in {ConsolidateFacts(st, out.facts, episodes, get_last_hash(st),
                                      <<>>, id0, t0, tb)}})

check_wakeup(st) == query(st, "", TRUE, 0, 200, TRUE)

\* an on_new_memory that counts on after a batch instead of starting anew
on_new_memory_counting_on(st, cnt, unit, out, id0, t0, tb) ==
    IF unit.type # "episodic" THEN [units |-> st, created |-> <<>>, cnt |-> cnt, episodes |-> <<>>]
    ELSE IF cnt + 1 >= MicroThreshold
         THEN The({The({[units |-> r.units, created |-> r.created, cnt |-> cnt + 1,
                         episodes |-> recent] :
                        r \in {consolidate_batch(st, recent, out, id0, t0, tb)}}) :
                   recent \in {query(st, "episodic", TRUE, 0, 20, TRUE)}})
         ELSE [units |-> st, created |-> <<>>, cnt |-> cnt + 1, episodes |-> <<>>]

\* on_new_memory(unit) after the unit was stored: the counter and the table
on_new_memory(st, cnt, unit, out, id0, t0, tb) ==
    IF unit.type # "episodic" THEN [units |-> st, created |-> <<>>, cnt |-> cnt, episodes |-> <<>>]
    ELSE IF cnt + 1 >= MicroThreshold
         THEN The({The({[units |-> r.units, created |-> r.created, cnt |-> 0,
                         episodes |-> recent] :
                        r \in {consolidate_batch(st, recent, out, id0, t0, tb)}}) :
                   recent \in {query(st, "episodic", TRUE, 0, 20, TRUE)}})
         ELSE [units |-> st, created |-> <<>>, cnt |-> cnt + 1, episodes |-> <<>>]

(***************************************************************************)
(* Metabolism (earn only; the rest follows below)                          *)
(***************************************************************************)
\* earn(multiplier), the multiplier in tenths
earn(e, tenths) == e + ((EarnPerAction * tenths) \div 10)

(***************************************************************************)
(* What an operation was given and what it returned (observation only)     *)
(***************************************************************************)
Result(op) ==
    [op |-> op, id |-> 0, glh |-> NoHash, ret |-> <<>>, episodes |-> <<>>,
     called |-> FALSE, parsed |-> FALSE, dry |-> FALSE, arg |-> <<>>,
     before |-> <<>>, query |-> "", auto_accept |-> FALSE]

(***************************************************************************)
(* Engram.remember                                                         *)
(***************************************************************************)
NoOutput == [ok |-> FALSE, facts |-> <<>>]

\* the LLM answers that matter to a call: none when the LLM is not called
OutputsIf(called) == IF called THEN LLMOutputs ELSE {NoOutput}

TieBreaksIf(called) == IF called THEN TieBreaks ELSE {"lo"}

MicroRuns(type) ==
    /\ type = "episodic"
    /\ newCount + 1 >= MicroThreshold
    /\ llmOn

Remember(content, type, salience, out, tb) ==
    /\ nextId + Cardinality(NonEmptyFacts(out.facts)) <= MaxUnits
    /\ \E unit0 \in {[MemoryUnit(nextId, now, type, content, content)
                          EXCEPT !.salience = salience,
                                 !.prev_hash = get_last_hash(units)]} :
       \E unit \in {[unit0 EXCEPT !.signature = sign_memory(unit0)]} :
       \E r \in {on_new_memory(store(units, unit), newCount, unit, out,
                               nextId + 1, now + 1, tb)} :
       /\ units' = r.units
       /\ newCount' = r.cnt
       /\ earned' = earn(earned, 5)
       /\ nextId' = nextId + 1 + Len(r.created)
       /\ now' = now + 1 + Len(r.created)
       /\ last' = [Result("remember") EXCEPT
                      !.id = unit.id, !.glh = unit.prev_hash, !.ret = r.created,
                      !.episodes = r.episodes,
                      !.called = r.episodes # <<>> /\ llmOn,
                      !.parsed = r.episodes # <<>> /\ llmOn /\ out.ok]
       /\ UNCHANGED <<packages, naclOK, llmOn, rows, calls, fired>>

RememberAny ==
    \E in \in RememberInputs :
        \E out \in OutputsIf(MicroRuns(in[2])), tb \in TieBreaksIf(MicroRuns(in[2])) :
            Remember(in[1], in[2], in[3], out, tb)

Tick ==
    /\ Today < MaxDays
    /\ now' = now + TicksPerDay
    /\ last' = Result("tick")
    /\ UNCHANGED <<units, nextId, newCount, earned, packages, naclOK, llmOn, rows, calls, fired>>

InitFresh ==
    /\ units = <<>>
    /\ now = 1
    /\ nextId = 1
    /\ newCount = 0
    /\ earned = 0
    /\ packages = {}
    /\ naclOK \in BOOLEAN
    /\ llmOn \in BOOLEAN
    /\ last = Result("init")
    /\ rows = <<>>
    /\ calls = <<>>
    /\ fired = {}

NextRemember == RememberAny \/ Tick

SpecRemember == InitFresh /\ [][NextRemember]_vars

(***************************************************************************)
(* Consolidator.wakeup_consolidate                                         *)
(***************************************************************************)
WakeupConsolidate(out, tb) ==
    /\ nextId + Cardinality(NonEmptyFacts(out.facts)) - 1 <= MaxUnits
    /\ \E unconsolidated \in {check_wakeup(units)} :
       \E r \in {consolidate_batch(units, unconsolidated, out, nextId, now, tb)} :
       /\ units' = r.units
       /\ nextId' = nextId + Len(r.created)
       /\ now' = now + Len(r.created)
       /\ last' = [Result("wakeup_consolidate") EXCEPT
                      !.ret = r.created, !.episodes = unconsolidated,
                      !.called = unconsolidated # <<>> /\ llmOn,
                      !.parsed = unconsolidated # <<>> /\ llmOn /\ out.ok]
       /\ UNCHANGED <<newCount, earned, packages, naclOK, llmOn, rows, calls, fired>>

WakeupConsolidateAny ==
    \E out \in OutputsIf(check_wakeup(units) # <<>> /\ llmOn),
       tb \in TieBreaksIf(check_wakeup(units) # <<>> /\ llmOn) :
        WakeupConsolidate(out, tb)

(***************************************************************************)
(* Retriever.retrieve and Prospective                                      *)
(***************************************************************************)
TopK == 10                \* recall(top_k=10)
TriggerThreshold == 70    \* Prospective(trigger_threshold=0.7)
Queries == {"b", "c"}

\* candidates are fetched with LanceStore.vector_search (LanceStore defines
\* no vector_search_full), whose filter takes the type and active but not
\* min_salience; without candidates the recent rows are returned as query
\* gives them. The hybrid score only orders the candidates, and with at
\* most top_k of them every one that is active is returned
retrieve(st, q, top_k, type_filter, min_salience, tb) ==
    The({IF candidates = <<>>
         THEN [results |-> query(st, type_filter, TRUE, min_salience, top_k, FALSE),
               scored |-> FALSE]
         ELSE [results |-> The({[k \in 1..Len(Take(scored, top_k)) |-> scored[k][1]] :
                                scored \in {SelectSeq(candidates,
                                               LAMBDA c : st[c[1]].active)}}),
               scored |-> TRUE] :
         candidates \in {SelectSeq(vector_search(st, q, top_k * 3, tb),
                            LAMBDA c : type_filter # "" => st[c[1]].type = type_filter)}})

RECURSIVE UpdateAccessAll(_, _, _)
UpdateAccessAll(st, ids, t) ==
    IF ids = <<>> THEN st
    ELSE UpdateAccessAll(update_access(st, Head(ids), t), Tail(ids), t)

check_triggers(st, context) ==
    SelectSeq(query(st, "prospective", TRUE, 0, 100, FALSE),
          LAMBDA p : /\ st[p].trigger_condition # ""
                     /\ Sim(context, st[p].embedding) >= TriggerThreshold)

RECURSIVE FireAll(_, _)
FireAll(st, ps) ==
    IF ps = <<>> THEN st ELSE FireAll(deactivate(st, Head(ps)), Tail(ps))

Recall(q, type_filter, tb) ==
    \E r \in {retrieve(units, q, TopK, type_filter, 0, tb)} :
    \E results \in {r.results} :
    \E st1 \in {IF r.scored THEN UpdateAccessAll(units, results, now) ELSE units} :
    \E triggered \in {check_triggers(st1, q)} :
       /\ \A i \in Range(results) : units[i].retrieval_count < MaxRetrieval
       /\ units' = FireAll(st1, triggered)
       /\ fired' = fired \cup Range(triggered)
       /\ last' = [Result("recall") EXCEPT !.ret = results, !.arg = triggered,
                                           !.query = q]
       /\ UNCHANGED <<now, nextId, newCount, earned, packages, naclOK, llmOn, rows, calls>>

RecallAny ==
    \E q \in Queries, type_filter \in {"", "episodic"}, tb \in TieBreaks :
        Recall(q, type_filter, tb)

\* Retriever.retrieve(query, top_k, type_filter, min_salience, update_access)
Retrieve(q, type_filter, min_salience, upd, tb) ==
    \E r \in {retrieve(units, q, TopK, type_filter, min_salience, tb)} :
       /\ upd =>
             \A i \in Range(r.results) : units[i].retrieval_count < MaxRetrieval
       /\ units' = IF r.scored /\ upd
                   THEN UpdateAccessAll(units, r.results, now) ELSE units
       /\ last' = [Result("retrieve") EXCEPT
                      !.ret = r.results,
                      !.query = q,
                      !.arg = [type_filter |-> type_filter,
                               min_salience |-> min_salience,
                               update_access |-> upd, top_k |-> TopK,
                               scored |-> r.scored],
                      !.before = units]
       /\ UNCHANGED <<now, nextId, newCount, earned, packages, naclOK, llmOn, rows, calls, fired>>

\* "w" is a query the embedder gives a vector of another length
RetrieveAny ==
    \E q \in {"b", "w"}, type_filter \in {"", "episodic"},
       min_salience \in {0, 80}, upd \in BOOLEAN, tb \in TieBreaks :
        Retrieve(q, type_filter, min_salience, upd, tb)

\* Prospective.create(trigger_condition, action) with the default content
Intend(trigger) ==
    /\ nextId <= MaxUnits
    /\ \E unit \in {[MemoryUnit(nextId, now, "prospective", "when", trigger)
                         EXCEPT !.salience = 80, !.trigger_condition = trigger,
                                !.tags = {"prospective", "active"}]} :
       /\ units' = store(units, unit)
       /\ nextId' = nextId + 1
       /\ now' = now + 1
       /\ last' = [Result("intend") EXCEPT !.id = unit.id]
       /\ UNCHANGED <<newCount, earned, packages, naclOK, llmOn, rows, calls, fired>>

IntendAny == \E trigger \in {"a"} : Intend(trigger)

(***************************************************************************)
(* Narrative                                                               *)
(***************************************************************************)
\* query(type="narrative", limit=1) takes one matching row in table order,
\* which the table does not fix when several narratives are active (tb)
get_current_narrative(st, tb) ==
    The({IF S = {} THEN 0
         ELSE IF tb = "lo" THEN CHOOSE i \in S : \A j \in S : i <= j
         ELSE CHOOSE i \in S : \A j \in S : i >= j :
         S \in {{i \in Ids(st) : st[i].type = "narrative" /\ st[i].active}}})

\* ok: the llm call returned a text (it did not raise)
UpdateNarrative(ok, tb) ==
    /\ llmOn /\ ok => nextId <= MaxUnits
    /\ \E current \in {get_current_narrative(units, tb)} :
       \E unit \in {[MemoryUnit(nextId, now, "narrative", "story", "story")
                       EXCEPT !.salience = 100,
                              !.tags = {"self", "identity", "narrative"},
                              !.version = IF current # 0 THEN units[current].version + 1
                                          ELSE 1,
                              !.prev_hash = IF current # 0
                                            THEN content_hash(units[current])
                                            ELSE NoHash]} :
       /\ IF llmOn /\ ok
          THEN /\ units' = store(IF current # 0 THEN deactivate(units, current)
                                 ELSE units,
                                 unit)
               /\ nextId' = nextId + 1
               /\ now' = now + 1
               /\ last' = [Result("update_narrative") EXCEPT
                              !.id = unit.id, !.arg = current,
                              !.called = TRUE, !.parsed = TRUE]
          ELSE /\ UNCHANGED <<units, nextId, now>>
               /\ last' = [Result("update_narrative") EXCEPT !.called = llmOn]
       /\ UNCHANGED <<newCount, earned, packages, naclOK, llmOn, rows, calls, fired>>

UpdateNarrativeAny == \E ok \in BOOLEAN, tb \in TieBreaks : UpdateNarrative(ok, tb)

(***************************************************************************)
(* Metabolism                                                              *)
(***************************************************************************)
AgeDays(u, t) == IF t > u.timestamp THEN (t - u.timestamp) \div TicksPerDay ELSE 0

\* MemoryUnit.compute_maintenance_cost: words * 1.3 * salience * 1.2^age,
\* in CostUnit-ths of a token
compute_maintenance_cost(u, age_days) ==
    WordCount(u.content) * 13 * u.salience
        * (12 ^ age_days) * (10 ^ (MaxDays - age_days))

RECURSIVE CostLoop(_, _, _)
CostLoop(st, memories, snapshot) ==
    IF memories = <<>> THEN st
    ELSE CostLoop(update_unit(st, [snapshot[Head(memories)] EXCEPT
                     !.maintenance_cost =
                         compute_maintenance_cost(snapshot[Head(memories)],
                             AgeDays(snapshot[Head(memories)], now))]),
                  Tail(memories), snapshot)

compute_costs(st) == CostLoop(st, query(st, "", TRUE, 0, 10000, FALSE), st)

Utility(r) == r.retrieval_count * 600 + r.salience * 3

\* <<id, maintenance_cost, utility>> of the active rows, by utility ascending;
\* rows of equal utility keep table order, which the table does not fix (tb)
all_active_costs(st, tb) ==
    The({[k \in 1..Len(ranked) |->
             <<ranked[k], st[ranked[k]].maintenance_cost, Utility(st[ranked[k]])>>] :
         ranked \in {SortAsc({i \in Ids(st) : st[i].active},
                             [i \in Ids(st) |->
                                 Utility(st[i]) * (MaxUnits + 2)
                                    + (IF tb = "lo" THEN i ELSE MaxUnits + 1 - i)])}})

RECURSIVE SumCosts(_)
SumCosts(costs) == IF costs = <<>> THEN 0 ELSE Head(costs)[2] + SumCosts(Tail(costs))

total_cost(st) == SumCosts(all_active_costs(st, "lo"))

effective_budget == (MaxTokens + earned) * CostUnit

\* fault variant of the eviction loop: it stops after the first eviction
ArchiveFirst(costs, excess) ==
    IF costs = <<>> \/ excess <= 0 \/ Head(costs)[3] > 5000 THEN <<>>
    ELSE <<Head(costs)[1]>>

\* fault variant of the eviction loop: no unit is protected by its utility
RECURSIVE ArchiveUnprotected(_, _)
ArchiveUnprotected(costs, excess) ==
    IF costs = <<>> \/ excess <= 0 THEN <<>>
    ELSE <<Head(costs)[1]>> \o ArchiveUnprotected(Tail(costs), excess - Head(costs)[2])

\* the eviction loop: the ids archived, in order
RECURSIVE Archive(_, _)
Archive(costs, excess) ==
    IF costs = <<>> \/ excess <= 0 THEN <<>>
    ELSE IF Head(costs)[3] > 5000 THEN Archive(Tail(costs), excess)
    ELSE <<Head(costs)[1]>> \o Archive(Tail(costs), excess - Head(costs)[2])

\* fault variant of metabolize: the budget leaves out the earned tokens
metabolize_fixed_budget(st, dry_run, tb) ==
    The({The({The({[units |-> IF dry_run THEN st1 ELSE FireAll(st1, archived),
                    archived |-> archived, total |-> total] :
                   archived \in {IF total <= MaxTokens * CostUnit THEN <<>>
                                 ELSE Archive(all_active_costs(st1, tb),
                                              total - MaxTokens * CostUnit)}}) :
              total \in {total_cost(st1)}}) :
         st1 \in {compute_costs(st)}})

metabolize(st, dry_run, tb) ==
    The({The({The({[units |-> IF dry_run THEN st1 ELSE FireAll(st1, archived),
                    archived |-> archived, total |-> total] :
                   archived \in {IF total <= effective_budget THEN <<>>
                                 ELSE Archive(all_active_costs(st1, tb),
                                              total - effective_budget)}}) :
              total \in {total_cost(st1)}}) :
         st1 \in {compute_costs(st)}})

Metabolize(dry_run, tb) ==
    \E r \in {metabolize(units, dry_run, tb)} :
       /\ units' = r.units
       /\ last' = [Result("metabolize") EXCEPT
                      !.ret = r.archived, !.dry = dry_run, !.arg = r.total,
                      !.before = {i \in Ids(units) : units[i].active}]
       /\ UNCHANGED <<now, nextId, newCount, earned, packages, naclOK, llmOn, rows, calls, fired>>

MetabolizeAny == \E dry_run \in BOOLEAN, tb \in TieBreaks : Metabolize(dry_run, tb)

(***************************************************************************)
(* Anchoring                                                               *)
(***************************************************************************)
ANCHOR_TAGS == {"anchored", "human_verified", "tool_verified", "external_verified"}
SalienceThreshold == 85    \* Anchoring(salience_threshold=0.85)
DemotionFactor == 60       \* Anchoring(demotion_factor=0.6)

find_unanchored(st) ==
    SelectSeq(query(st, "semantic", TRUE, SalienceThreshold, 500, FALSE),
          LAMBDA i : /\ ANCHOR_TAGS \cap st[i].tags = {}
                     /\ now - st[i].timestamp > AnchorWindowDays * TicksPerDay)

RECURSIVE DemoteLoop(_, _, _)
DemoteLoop(st, ms, snapshot) ==
    IF ms = <<>> THEN st
    ELSE DemoteLoop(update_unit(st, [snapshot[Head(ms)] EXCEPT
                       !.salience = (@ * DemotionFactor) \div 100,
                       !.tags = @ \cup {"unanchored_demoted"}]),
                    Tail(ms), snapshot)

\* a demote_unanchored that writes whatever dry_run says
DemoteUnanchoredWriting(dry_run) ==
    \E unanchored \in {find_unanchored(units)} :
       /\ units' = DemoteLoop(units, unanchored, units)
       /\ last' = [Result("demote_unanchored") EXCEPT
                      !.ret = unanchored, !.dry = dry_run]
       /\ UNCHANGED <<now, nextId, newCount, earned, packages, naclOK, llmOn, rows, calls, fired>>

DemoteUnanchored(dry_run) ==
    \E unanchored \in {find_unanchored(units)} :
       /\ units' = IF dry_run THEN units ELSE DemoteLoop(units, unanchored, units)
       /\ last' = [Result("demote_unanchored") EXCEPT
                      !.ret = unanchored, !.dry = dry_run]
       /\ UNCHANGED <<now, nextId, newCount, earned, packages, naclOK, llmOn, rows, calls, fired>>

DemoteUnanchoredAny == \E dry_run \in BOOLEAN : DemoteUnanchored(dry_run)

Anchor(id, method) ==
    /\ id \in Ids(units)
    /\ units' = update_unit(units, [units[id] EXCEPT
                    !.tags = (@ \cup {method}) \ {"unanchored_demoted"}])
    /\ last' = [Result("anchor") EXCEPT !.id = id]
    /\ UNCHANGED <<now, nextId, newCount, earned, packages, naclOK, llmOn, rows, calls, fired>>

AnchorAny ==
    \E id \in {i \in Ids(units) : units[i].type = "semantic"
                                    /\ "human_verified" \notin units[i].tags} :
        Anchor(id, "human_verified")

(***************************************************************************)
(* Transplant                                                              *)
(***************************************************************************)
\* the canonical JSON of a package without its signature field
Payload(agent_id, exported_at, us) == <<"package", agent_id, exported_at, us>>

Package(agent_id, exported_at, us, signature) ==
    [agent_id |-> agent_id, exported_at |-> exported_at, units |-> us,
     signature |-> signature]

\* export_package(unit_ids) for the ids that exist
export_package(st, unit_ids, t) ==
    The({Package(public_key_b64, t, us, sign(Payload(public_key_b64, t, us))) :
         us \in {[k \in 1..Len(unit_ids) |-> st[unit_ids[k]]]}})

NoTrustedKeys == [given |-> FALSE, keys |-> {}]

\* a verify_package that accepts any non-empty signature
verify_package_present(package, trusted_keys) ==
    [valid |-> "signature" \in DOMAIN package /\ package.signature # NoSig,
     package |-> package]

\* the signature is popped, the rest serialized and verified, and the
\* signature put back: valid, and the package as the call leaves it
verify_package(package, trusted_keys) ==
    IF "signature" \notin DOMAIN package
    THEN [valid |-> FALSE, package |-> package]
    ELSE The({[valid |->
                  /\ ~(trusted_keys.given /\ trusted_keys.keys # {}
                          /\ popped.agent_id \notin trusted_keys.keys)
                  /\ verify(Payload(popped.agent_id, popped.exported_at, popped.units),
                            package.signature, popped.agent_id),
               package |-> [f \in DOMAIN popped \cup {"signature"} |->
                              IF f = "signature" THEN package.signature
                              ELSE popped[f]]] :
              popped \in {[f \in DOMAIN package \ {"signature"} |-> package[f]]}})

RECURSIVE ImportLoop(_, _, _, _, _)
ImportLoop(st, us, source_agent, trust_score, auto_accept) ==
    IF us = <<>> THEN st
    ELSE LET u0 == Head(us)
             unit == [u0 EXCEPT
                        !.source_agent = source_agent,
                        !.trust_score = trust_score,
                        !.active = IF auto_accept THEN @ ELSE FALSE,
                        !.tags = @ \cup (IF auto_accept THEN {"transplant", "accepted"}
                                         ELSE {"transplant", "proposal"})]
         IN ImportLoop(store(st, unit), Tail(us), source_agent, trust_score,
                       auto_accept)

\* an import_package that stages every unit whatever auto_accept says
import_package_staging(st, package, trust_score, auto_accept, trusted_keys) ==
    IF ~verify_package(package, trusted_keys).valid
    THEN [units |-> st, imported |-> <<>>]
    ELSE [units |-> ImportLoop(st, package.units, package.agent_id,
                               trust_score, FALSE),
          imported |-> [k \in 1..Len(package.units) |-> package.units[k].id]]

import_package(st, package, trust_score, auto_accept, trusted_keys) ==
    IF ~verify_package(package, trusted_keys).valid
    THEN [units |-> st, imported |-> <<>>]
    ELSE [units |-> ImportLoop(st, package.units, package.agent_id,
                               trust_score, auto_accept),
          imported |-> [k \in 1..Len(package.units) |-> package.units[k].id]]

ExportPackage(unit_ids) ==
    /\ Cardinality(packages) < MaxPackages
    /\ packages' = packages \cup {export_package(units, unit_ids, now)}
    /\ last' = [Result("export_package") EXCEPT !.ret = unit_ids]
    /\ UNCHANGED <<units, now, nextId, newCount, earned, naclOK, llmOn, rows, calls, fired>>

\* export_package(ids) is explored for the ids of the whole store
ExportPackageAny ==
    /\ Ids(units) # {}
    /\ ExportPackage(SortAsc(Ids(units), [i \in Ids(units) |-> i]))

\* another agent remembers something and exports it: its unit is signed
\* with its own key and, being a remember of that agent, has the prev_hash
\* its get_last_hash returned
ForeignPackage(content, id, t) ==
    The({Package(ForeignKey, t, <<unit>>,
                 <<ForeignKey, Payload(ForeignKey, t, <<unit>>)>>) :
         unit \in {[unit0 EXCEPT !.signature = <<ForeignKey, content_hash(unit0)>>] :
                     unit0 \in {MemoryUnit(id, t, "semantic", content, content)}}})

ImportPackage(package, auto_accept) ==
    \E r \in {import_package(units, package, 85, auto_accept, NoTrustedKeys)} :
       /\ units' = r.units
       /\ last' = [Result("import_package") EXCEPT
                      !.ret = r.imported, !.arg = package.agent_id,
                      !.auto_accept = auto_accept,
                      !.before = [how |-> "none", given |-> package,
                                  left |-> verify_package(package, NoTrustedKeys).package]]
       /\ UNCHANGED <<now, nextId, newCount, earned, packages, naclOK, llmOn, rows, calls, fired>>

ImportPackageAny ==
    \E package \in packages, auto_accept \in BOOLEAN :
        ImportPackage(package, auto_accept)

\* import of a package another agent has just exported
ImportForeign(content, auto_accept) ==
    /\ nextId <= MaxUnits
    /\ \E package \in {ForeignPackage(content, nextId, now)} :
       \E r \in {import_package(units, package, 85, auto_accept, NoTrustedKeys)} :
       /\ units' = r.units
       /\ nextId' = nextId + 1
       /\ now' = now + 1
       /\ last' = [Result("import_package") EXCEPT
                      !.ret = r.imported, !.arg = package.agent_id,
                      !.auto_accept = auto_accept,
                      !.before = [how |-> "none", given |-> package,
                                  left |-> verify_package(package, NoTrustedKeys).package]]
       /\ UNCHANGED <<newCount, earned, packages, naclOK, llmOn, rows, calls, fired>>

ImportForeignAny ==
    \E content \in {"a"}, auto_accept \in BOOLEAN : ImportForeign(content, auto_accept)

\* a package as it arrives after a change on the way
PackageAlterations == {"none", "unsigned", "empty_signature", "content", "agent_id"}

AlteredPackage(package, how) ==
    CASE how = "unsigned" ->
             [f \in DOMAIN package \ {"signature"} |-> package[f]]
      [] how = "empty_signature" -> [package EXCEPT !.signature = NoSig]
      [] how = "content" -> [package EXCEPT !.units[1].content = "x"]
      [] how = "agent_id" ->
             [package EXCEPT !.agent_id = IF @ = LocalKey THEN ForeignKey
                                          ELSE LocalKey]
      [] OTHER -> package

\* import_package of an exported package that was altered on the way
ImportAltered(package, how, auto_accept) ==
    \E given \in {AlteredPackage(package, how)} :
    \E v \in {verify_package(given, NoTrustedKeys)} :
       /\ units' = IF v.valid
                   THEN ImportLoop(units, given.units, given.agent_id, 85, auto_accept)
                   ELSE units
       /\ last' = [Result("import_package") EXCEPT
                      !.ret = IF v.valid
                              THEN [k \in 1..Len(given.units) |-> given.units[k].id]
                              ELSE <<>>,
                      !.arg = given.agent_id,
                      !.auto_accept = auto_accept,
                      !.before = [how |-> how, given |-> given, left |-> v.package]]
       /\ UNCHANGED <<now, nextId, newCount, earned, packages, naclOK, llmOn, rows, calls, fired>>

ImportAlteredAny ==
    \E package \in packages, how \in PackageAlterations, auto_accept \in BOOLEAN :
        ImportAltered(package, how, auto_accept)

\* trusted_keys arguments: the mapping supplied, by the set of its values
TrustedKeys ==
    {[given |-> TRUE, keys |-> ks] : ks \in SUBSET {LocalKey, ForeignKey}}

\* import_package(package, auto_accept=..., trusted_keys=...)
ImportTrusted(package, auto_accept, trusted_keys) ==
    \E r \in {import_package(units, package, 85, auto_accept, trusted_keys)} :
       \E v \in {verify_package(package, trusted_keys)} :
       /\ units' = r.units
       /\ last' = [Result("import_package") EXCEPT
                      !.ret = r.imported, !.arg = package.agent_id,
                      !.auto_accept = auto_accept,
                      !.before = [how |-> "none", given |-> package,
                                  left |-> v.package, valid |-> v.valid,
                                  trusted |-> trusted_keys]]
       /\ UNCHANGED <<now, nextId, newCount, earned, packages, naclOK, llmOn, rows, calls, fired>>

ImportTrustedAny ==
    \E package \in packages, auto_accept \in BOOLEAN, trusted_keys \in TrustedKeys :
        ImportTrusted(package, auto_accept, trusted_keys)

\* the same for a package another agent has just exported
ImportForeignTrusted(content, auto_accept, trusted_keys) ==
    /\ nextId <= MaxUnits
    /\ \E package \in {ForeignPackage(content, nextId, now)} :
       \E r \in {import_package(units, package, 85, auto_accept, trusted_keys)} :
       \E v \in {verify_package(package, trusted_keys)} :
       /\ units' = r.units
       /\ last' = [Result("import_package") EXCEPT
                      !.ret = r.imported, !.arg = package.agent_id,
                      !.auto_accept = auto_accept,
                      !.before = [how |-> "none", given |-> package,
                                  left |-> v.package, valid |-> v.valid,
                                  trusted |-> trusted_keys]]
       /\ nextId' = nextId + 1
       /\ now' = now + 1
       /\ UNCHANGED <<newCount, earned, packages, naclOK, llmOn, rows, calls, fired>>

ImportForeignTrustedAny ==
    \E content \in {"a"}, auto_accept \in BOOLEAN, trusted_keys \in TrustedKeys :
        ImportForeignTrusted(content, auto_accept, trusted_keys)

\* engram_core Transplant.accept_proposal: two UPDATEs by id
AcceptProposal(id) ==
    /\ id \in Ids(units)
    /\ units' = [units EXCEPT ![id] = [@ EXCEPT
                    !.active = TRUE,
                    !.tags = IF "proposal" \in @
                             THEN (@ \ {"proposal"}) \cup {"accepted"} ELSE @]]
    /\ last' = [Result("accept_proposal") EXCEPT !.id = id]
    /\ UNCHANGED <<now, nextId, newCount, earned, packages, naclOK, llmOn, rows, calls, fired>>

AcceptProposalAny ==
    \E id \in {i \in Ids(units) : "proposal" \in units[i].tags} : AcceptProposal(id)

(***************************************************************************)
(* Dreamer                                                                 *)
(***************************************************************************)
NSamples == 3             \* dream(n_samples=3)
NoveltyThreshold == 75    \* Dreamer(novelty_threshold=0.75)
MinScore == 55            \* Dreamer(min_score=0.55)

Insight(text, nlinks, novelty_score) ==
    [insight |-> text, nlinks |-> nlinks, novelty_score |-> novelty_score]

Insights == {Insight("c", 2, 90), Insight("a", 2, 90), Insight("c", 1, 50),
             Insight("c", 1, 90)}

InsightOutputs ==
    {[ok |-> FALSE, facts |-> <<>>]}
       \cup {[ok |-> TRUE, facts |-> fs] :
                fs \in UNION {[1..n -> Insights] : n \in 0..MaxFacts}}

Passing(insights) ==
    {k \in 1..Len(insights) : insights[k].novelty_score >= MinScore}

\* the loop over the proposed insights, as ConsolidateFacts
RECURSIVE DreamLoop(_, _, _, _, _, _, _, _)
DreamLoop(st, insights, selected, prev, created, id0, t0, tb) ==
    IF insights = <<>> THEN [units |-> st, created |-> created]
    ELSE IF \/ Head(insights).insight = ""
            \/ Head(insights).novelty_score < MinScore
            \/ \E nearest \in {vector_search(st, Head(insights).insight, 3, tb)} :
                  nearest # <<>> /\ nearest[1][2] > NoveltyThreshold
    THEN DreamLoop(st, Tail(insights), selected, prev, created, id0, t0, tb)
    ELSE The({DreamLoop(store(st, unit), Tail(insights), selected,
                        content_hash(unit), Append(created, unit.id), id0, t0, tb) :
              unit \in {[MemoryUnit(id0 + Len(created), t0 + Len(created),
                                    "insight", Head(insights).insight,
                                    Head(insights).insight)
                           EXCEPT !.salience = 92, !.tags = {"dream"},
                                  !.relations =
                                      [j \in 1..Len(Take(selected, Head(insights).nlinks))
                                          |-> <<selected[j], "inspired_by">>],
                                  !.prev_hash = prev]}})

\* _diverse_sample returns every unit when there are at most k of them
dream(st, out, id0, t0, tb) ==
    The({IF ~llmOn \/ Len(all_semantic) < NSamples \/ ~out.ok
         THEN [units |-> st, created |-> <<>>]
         ELSE DreamLoop(st, out.facts, Take(all_semantic, NSamples),
                        get_last_hash(st), <<>>, id0, t0, tb) :
         all_semantic \in {query(st, "semantic", TRUE, 0, 500, FALSE)}})

DreamCalls == llmOn /\ Len(query(units, "semantic", TRUE, 0, 500, FALSE)) >= NSamples

Dream(out, tb) ==
    /\ nextId + Cardinality(Passing(out.facts)) - 1 <= MaxUnits
    /\ \E r \in {dream(units, out, nextId, now, tb)} :
       /\ units' = r.units
       /\ nextId' = nextId + Len(r.created)
       /\ now' = now + Len(r.created)
       /\ last' = [Result("dream") EXCEPT
                      !.ret = r.created, !.called = DreamCalls,
                      !.parsed = DreamCalls /\ out.ok, !.arg = out.facts]
       /\ UNCHANGED <<newCount, earned, packages, naclOK, llmOn, rows, calls, fired>>

DreamAny ==
    \E out \in (IF DreamCalls THEN InsightOutputs ELSE {NoOutput}),
       tb \in TieBreaksIf(DreamCalls) :
        Dream(out, tb)

(***************************************************************************)
(* Specifications: the operations a group of claims is about, from a      *)
(* fresh store                                                             *)
(***************************************************************************)
\* a fresh store of an instance with a keypair and an LLM
Init ==
    /\ InitFresh
    /\ naclOK
    /\ llmOn

\* the operations that create units
NextChain ==
    \/ RememberAny
    \/ WakeupConsolidateAny
    \/ DreamAny
    \/ IntendAny
    \/ UpdateNarrativeAny
    \/ ImportForeignAny

SpecChain == Init /\ [][NextChain]_vars

\* consolidation among the operations that change what it reads
NextConsolidate ==
    \/ RememberAny
    \/ WakeupConsolidateAny
    \/ MetabolizeAny

InitConsolidate ==
    /\ InitFresh
    /\ naclOK

SpecConsolidate == InitConsolidate /\ [][NextConsolidate]_vars

\* metabolism among the operations that change costs, utilities and budget
NextMetab ==
    \/ RememberAny
    \/ RecallAny
    \/ MetabolizeAny
    \/ Tick

\* a store an earlier session left on disk: one remembered episode that
\* was recalled RecalledOften times; the new process has earned nothing yet
PersistedUnit ==
    The({[unit0 EXCEPT !.signature = <<LocalKey, content_hash(unit0)>>,
                       !.retrieval_count = RecalledOften] :
         unit0 \in {MemoryUnit(1, 1, "episodic", "a", "a")}})

InitMetab ==
    /\ \/ units = <<>> /\ now = 1 /\ nextId = 1
       \/ units = store(<<>>, PersistedUnit) /\ now = 2 /\ nextId = 2
    /\ newCount = 0
    /\ earned = 0
    /\ packages = {}
    /\ naclOK = TRUE
    /\ llmOn = FALSE
    /\ last = Result("init")
    /\ rows = <<>>
    /\ calls = <<>>
    /\ fired = {}

SpecMetab == InitMetab /\ [][NextMetab]_vars

\* signing, export and import among the operations that rewrite rows
Next ==
    \/ RememberAny
    \/ WakeupConsolidateAny
    \/ ExportPackageAny
    \/ ImportForeignAny
    \/ ImportPackageAny
    \/ AcceptProposalAny

Spec == Init /\ [][Next]_vars

\* marking episodes consolidated among the operations that rewrite rows
NextSetOnce ==
    \/ RememberAny
    \/ WakeupConsolidateAny
    \/ RecallAny
    \/ ExportPackageAny
    \/ ImportPackageAny

SpecSetOnce == Init /\ [][NextSetOnce]_vars

(***************************************************************************)
(* Verification calls on stored units and on altered copies of them        *)
(***************************************************************************)
Alterations == {"none", "content", "prev_hash", "signature"}

Altered(u, how) ==
    CASE how = "content" -> [u EXCEPT !.content = "x"]
      [] how = "prev_hash" -> [u EXCEPT !.prev_hash = <<"sha256", 0, "x", 0, NoHash>>]
      [] how = "signature" -> [u EXCEPT !.signature = <<ForeignKey, content_hash(u)>>]
      [] OTHER -> u

VerifyMemoryCall(id, how, pk) ==
    \E u \in {Altered(units[id], how)} :
       /\ last' = [Result("verify_memory") EXCEPT
                      !.arg = [unit |-> u, pk |-> pk],
                      !.ret = verify_memory(u, pk)]
       /\ UNCHANGED <<units, now, nextId, newCount, earned, packages, naclOK, llmOn, rows, calls, fired>>

VerifyMemoryAny ==
    \E id \in Ids(units), how \in Alterations, pk \in {"", LocalKey, ForeignKey} :
        VerifyMemoryCall(id, how, pk)

VerifyChainCall(S, id, how) ==
    \E st \in {[units EXCEPT ![id] = Altered(@, how)]} :
       /\ last' = [Result("verify_chain") EXCEPT
                      !.arg = [units |-> st, ids |-> S],
                      !.ret = verify_chain(st, S)]
       /\ UNCHANGED <<units, now, nextId, newCount, earned, packages, naclOK, llmOn, rows, calls, fired>>

VerifyChainAny ==
    \E S \in SUBSET Ids(units) : \E id \in S, how \in Alterations :
        VerifyChainCall(S, id, how)

NextVerify ==
    \/ RememberAny
    \/ ImportForeignAny
    \/ VerifyMemoryAny
    \/ VerifyChainAny

InitVerify ==
    /\ InitFresh
    /\ llmOn

SpecVerify == InitVerify /\ [][NextVerify]_vars

\* forgetting: every operation that deactivates, among those that create
\* and read units, on the store an earlier session left: one remembered
\* episode, never recalled
NextForget ==
    \/ RememberAny
    \/ IntendAny
    \/ \E tb \in TieBreaks : Recall("b", "", tb)
    \/ WakeupConsolidateAny
    \/ \E tb \in TieBreaks : Metabolize(FALSE, tb)
    \/ DemoteUnanchored(FALSE)
    \/ Tick

InitForget ==
    /\ units = store(<<>>, [PersistedUnit EXCEPT !.retrieval_count = 0])
    /\ now = 2
    /\ nextId = 2
    /\ newCount = 0
    /\ earned = 0
    /\ packages = {}
    /\ naclOK = TRUE
    /\ llmOn = TRUE
    /\ last = Result("init")
    /\ rows = <<>>
    /\ calls = <<>>
    /\ fired = {}

SpecForget == InitForget /\ [][NextForget]_vars

\* deactivation and the operations that rewrite rows by id
NextReactivate ==
    \/ RememberAny
    \/ IntendAny
    \/ \E tb \in TieBreaks : Recall("b", "", tb)
    \/ ExportPackageAny
    \/ ImportPackageAny
    \/ AcceptProposalAny

InitReactivate ==
    /\ InitFresh
    /\ naclOK
    /\ ~llmOn

SpecReactivate == InitReactivate /\ [][NextReactivate]_vars

(***************************************************************************)
(* Direct LanceStore.store calls on the table an earlier session created   *)
(***************************************************************************)
StoreUnits ==
    {[MemoryUnit(id, 1, "semantic", "a", emb) EXCEPT !.active = act] :
        id \in 1..MaxUnits, emb \in {"", "a", "w"}, act \in BOOLEAN}

\* store(unit): the row of the id is deleted, then table.add raises or adds
StoreCall(u) ==
    \E raised \in {add_raises(_unit_to_row(u))} :
    \E st1 \in {IF raised THEN delete(units, u.id) ELSE store(units, u)} :
       /\ units' = st1
       /\ last' = [Result("store") EXCEPT
                      !.arg = u,
                      !.ret = [raised |-> raised, got |-> get(st1, u.id)],
                      !.before = get(units, u.id)]
       /\ UNCHANGED <<now, nextId, newCount, earned, packages, naclOK, llmOn, rows, calls, fired>>

StoreAny == \E u \in StoreUnits : StoreCall(u)

NextStore == StoreAny

InitStore ==
    /\ units = store(<<>>, PersistedUnit)
    /\ now = 2
    /\ nextId = 2
    /\ newCount = 0
    /\ earned = 0
    /\ packages = {}
    /\ naclOK = TRUE
    /\ llmOn = FALSE
    /\ last = Result("init")
    /\ rows = <<>>
    /\ calls = <<>>
    /\ fired = {}

SpecStore == InitStore /\ [][NextStore]_vars

(***************************************************************************)
(* Callers that share the table (processes on one data_dir): each          *)
(* LanceDB request is one step of a LanceStore call                        *)
(***************************************************************************)
Callers == {1, 2}
MaxCalls == 1      \* calls per caller
TheId == 1         \* the id the calls are about

Idle(n) == [op |-> "idle", pc |-> "idle", unit |-> PersistedUnit, n |-> n]

RowsOf(id) == {k \in 1..Len(rows) : rows[k].id = id}

\* store(unit) is entered
BeginStore(c, u) ==
    /\ calls[c].op = "idle"
    /\ calls[c].n < MaxCalls
    /\ calls' = [calls EXCEPT ![c] = [op |-> "store", pc |-> "search",
                                      unit |-> u, n |-> @.n + 1]]
    /\ UNCHANGED <<units, now, nextId, newCount, earned, packages, naclOK, llmOn,
                   last, rows, fired>>

\* update_access, deactivate or mark_consolidated is entered
BeginUpdate(c, op) ==
    /\ calls[c].op = "idle"
    /\ calls[c].n < MaxCalls
    /\ calls' = [calls EXCEPT ![c] = [@ EXCEPT !.op = op, !.pc = "get",
                                                !.n = @ + 1]]
    /\ UNCHANGED <<units, now, nextId, newCount, earned, packages, naclOK, llmOn,
                   last, rows, fired>>

\* unit = self.get(unit_id): limit(1) takes any one row of the id; without
\* a row the call returns
GetStep(c) ==
    /\ calls[c].pc = "get"
    /\ \/ /\ RowsOf(TheId) = {}
          /\ calls' = [calls EXCEPT ![c] = Idle(@.n)]
       \/ \E k \in RowsOf(TheId) :
             calls' = [calls EXCEPT ![c] = [@ EXCEPT
                 !.pc = "search",
                 !.unit = CASE calls[c].op = "update_access" ->
                                   [rows[k] EXCEPT !.retrieval_count = @ + 1,
                                                   !.last_accessed = now]
                            [] calls[c].op = "deactivate" ->
                                   [rows[k] EXCEPT !.active = FALSE]
                            [] OTHER ->
                                   [rows[k] EXCEPT !.consolidated_ts = now]]]
    /\ UNCHANGED <<units, now, nextId, newCount, earned, packages, naclOK, llmOn,
                   last, rows, fired>>

\* existing = self.table.search().where(id = ...).limit(1).to_list()
SearchStep(c) ==
    /\ calls[c].pc = "search"
    /\ calls' = [calls EXCEPT ![c] = [@ EXCEPT
                    !.pc = IF RowsOf(calls[c].unit.id) # {} THEN "delete" ELSE "add"]]
    /\ UNCHANGED <<units, now, nextId, newCount, earned, packages, naclOK, llmOn,
                   last, rows, fired>>

\* self.table.delete(id = ...)
DeleteStep(c) ==
    /\ calls[c].pc = "delete"
    /\ rows' = SelectSeq(rows, LAMBDA r : r.id # calls[c].unit.id)
    /\ calls' = [calls EXCEPT ![c] = [@ EXCEPT !.pc = "add"]]
    /\ UNCHANGED <<units, now, nextId, newCount, earned, packages, naclOK, llmOn,
                   last, fired>>

\* self.table.add([row]); the call returns
AddStep(c) ==
    /\ calls[c].pc = "add"
    /\ rows' = Append(rows, _row_to_unit(_unit_to_row(calls[c].unit)))
    /\ calls' = [calls EXCEPT ![c] = Idle(@.n)]
    /\ last' = [Result(calls[c].op) EXCEPT !.id = calls[c].unit.id,
                    !.arg = _row_to_unit(_unit_to_row(calls[c].unit))]
    /\ UNCHANGED <<units, now, nextId, newCount, earned, packages, naclOK, llmOn,
                   fired>>

NextConcurrent ==
    \E c \in Callers :
        \/ \E v \in {2, 3} : BeginStore(c, [PersistedUnit EXCEPT !.version = v])
        \/ \E op \in {"update_access", "deactivate", "mark_consolidated"} :
              BeginUpdate(c, op)
        \/ GetStep(c)
        \/ SearchStep(c)
        \/ DeleteStep(c)
        \/ AddStep(c)

InitConcurrent ==
    /\ units = <<>>
    /\ now = 2
    /\ nextId = 2
    /\ newCount = 0
    /\ earned = 0
    /\ packages = {}
    /\ naclOK = TRUE
    /\ llmOn = FALSE
    /\ last = Result("init")
    /\ rows = <<PersistedUnit>>
    /\ calls = [c \in Callers |-> Idle(0)]
    /\ fired = {}

SpecConcurrent == InitConcurrent /\ [][NextConcurrent]_vars

\* retrieval over remembered units and staged proposals
NextRetrieve ==
    \/ RememberAny
    \/ ImportForeignAny
    \/ RetrieveAny

InitRetrieve ==
    /\ InitFresh
    /\ naclOK
    /\ ~llmOn

SpecRetrieve == InitRetrieve /\ [][NextRetrieve]_vars

\* transplant: packages of this agent and of another, as exported and
\* altered, among the operations that read the active units
NextTransplant ==
    \/ ImportForeignAny
    \/ ExportPackageAny
    \/ ImportAlteredAny
    \/ AcceptProposalAny
    \/ Recall("b", "", "lo")
    \/ Metabolize(FALSE, "lo")

InitTransplant ==
    /\ InitFresh
    /\ naclOK
    /\ ~llmOn

SpecTransplant == InitTransplant /\ [][NextTransplant]_vars

\* imports under a trusted_keys mapping, of own and of foreign packages
NextTrust ==
    \/ IntendAny
    \/ ExportPackageAny
    \/ ImportTrustedAny
    \/ ImportForeignTrustedAny

InitTrust ==
    /\ InitFresh
    /\ naclOK
    /\ ~llmOn

SpecTrust == InitTrust /\ [][NextTrust]_vars

(***************************************************************************)
(* C1: from an empty store, after remember calls only, verify_chain over  *)
(* all stored units returns (true, none).                                  *)
(***************************************************************************)
C1_ChainValidAfterRemembers ==
    verify_chain(units, Ids(units)) = [valid |-> TRUE, id |-> 0]

(***************************************************************************)
(* C2: get_last_hash() is the content_hash of the stored unit with the    *)
(* greatest timestamp and the empty string on an empty store: every       *)
(* remember writes that value as prev_hash.                                *)
(***************************************************************************)
C2_LastHashIsLatestContentHash ==
    [][last'.op = "remember" =>
          last'.glh = (IF Ids(units) = {} THEN NoHash
                       ELSE content_hash(units[ByTimestampDesc(units, Ids(units))[1]]))]_vars

(***************************************************************************)
(* C3: after the unit-creating operations, in timestamp order every       *)
(* unit's prev_hash is the content_hash of the unit just before it, and   *)
(* the first unit has an empty prev_hash.                                  *)
(***************************************************************************)
C3_ChainInvariant ==
    LET ms == ByTimestampAsc(units, Ids(units))
    IN \A k \in 1..Len(ms) :
          units[ms[k]].prev_hash =
             (IF k = 1 THEN NoHash ELSE content_hash(units[ms[k - 1]]))

(***************************************************************************)
(* C4: every stored unit with a non-empty signature carries a valid       *)
(* signature of its content_hash by its declared agent: the local key     *)
(* when source_agent is empty, source_agent otherwise.                     *)
(***************************************************************************)
ValidSignature(sig, data, key) == sig = <<key, data>>

DeclaredAgent(u) == IF u.source_agent = "" THEN LocalKey ELSE u.source_agent

C4_SignedUnitsVerify ==
    \A i \in Ids(units) :
        units[i].signature # NoSig =>
            ValidSignature(units[i].signature, content_hash(units[i]),
                           DeclaredAgent(units[i]))

(***************************************************************************)
(* C5: verify_memory(u) is true exactly when u.signature is non-empty, a  *)
(* key is available and the signature is a valid signature of             *)
(* content_hash(u) under the verifying key; verify_chain never returns    *)
(* (true, none) for a list holding a unit whose non-empty signature is    *)
(* invalid, and the unit it rejects is never one that is merely unsigned: *)
(* that unit has a broken link or a non-empty invalid signature.           *)
(***************************************************************************)
VerifyingKey(pk) == IF pk # "" THEN pk ELSE LocalKey

BadlySigned(u) ==
    /\ u.signature # NoSig
    /\ ~(naclOK /\ ValidSignature(u.signature, content_hash(u), LocalKey))

BrokenLink(st, S, id) ==
    LET ms == ByTimestampAsc(st, S)
    IN \E k \in 2..Len(ms) :
          /\ ms[k] = id
          /\ st[id].prev_hash # content_hash(st[ms[k - 1]])

C5_VerifyFailsClosed ==
    /\ last.op = "verify_memory" =>
          (last.ret <=>
              /\ last.arg.unit.signature # NoSig
              /\ naclOK
              /\ ValidSignature(last.arg.unit.signature,
                                content_hash(last.arg.unit),
                                VerifyingKey(last.arg.pk)))
    /\ last.op = "verify_chain" =>
          /\ (\E i \in last.arg.ids : BadlySigned(last.arg.units[i]))
                => ~last.ret.valid
          /\ ~last.ret.valid =>
                \/ BadlySigned(last.arg.units[last.ret.id])
                \/ BrokenLink(last.arg.units, last.arg.ids, last.ret.id)

C5_Witness ==
    /\ last.op = "verify_chain"
    /\ ~last.ret.valid
    /\ \E i \in last.arg.ids : BadlySigned(last.arg.units[i])
    /\ \E i \in last.arg.ids : last.arg.units[i].signature = NoSig

(***************************************************************************)
(* C6: after consolidate_batch(E) ran with an LLM answer that parsed as   *)
(* an array, every episode of E has a non-empty consolidated_ts.           *)
(***************************************************************************)
C6_EpisodesMarked ==
    (last.op \in {"wakeup_consolidate", "remember"} /\ last.parsed) =>
        \A e \in Range(last.episodes) : units[e].consolidated_ts # NoTs

C6_Witness ==
    /\ last.op = "wakeup_consolidate"
    /\ last.parsed
    /\ Len(last.episodes) >= 2
    /\ \E i \in Range(last.ret) : units[i].relations = <<>>
    /\ \A e \in Range(last.episodes) : units[e].consolidated_ts # NoTs

(***************************************************************************)
(* C7: when the LLM answer of consolidate_batch(E) cannot be parsed, the  *)
(* call returns [], no unit is created or changed (none deactivated, no   *)
(* consolidated_ts set), and wakeup_consolidate is offered the same       *)
(* episodes again.                                                         *)
(***************************************************************************)
C7_ParseFailureChangesNothing ==
    [][(last'.op \in {"wakeup_consolidate", "remember"}
            /\ last'.called /\ ~last'.parsed) =>
          /\ last'.ret = <<>>
          /\ Ids(units') \ Ids(units) \subseteq {last'.id}
          /\ \A i \in Ids(units) : units'[i] = units[i]
          /\ \A e \in Range(last'.episodes) : units'[e].consolidated_ts = NoTs
          /\ check_wakeup(units') = last'.episodes]_vars

C7_Witness ==
    /\ last.op = "wakeup_consolidate"
    /\ last.called
    /\ ~last.parsed
    /\ Len(last.episodes) >= 2
    /\ \E i \in Ids(units) : units[i].type = "semantic" /\ units[i].active

(***************************************************************************)
(* C8: once a stored unit has a non-empty consolidated_ts, it has one in  *)
(* every later state.                                                      *)
(***************************************************************************)
C8_ConsolidatedTsSetOnce ==
    [][\A i \in Ids(units) :
          units[i].consolidated_ts # NoTs =>
             (i \in Ids(units') /\ units'[i].consolidated_ts # NoTs)]_vars

(***************************************************************************)
(* C9: when the maintenance cost of the active set, at the time           *)
(* metabolize runs, is at most effective_budget(), metabolize returns []  *)
(* and the set of active ids is unchanged.                                 *)
(***************************************************************************)
RECURSIVE SumOver(_, _)
SumOver(S, f) ==
    IF S = {} THEN 0
    ELSE LET x == CHOOSE y \in S : TRUE IN f[x] + SumOver(S \ {x}, f)

ActiveIds(st) == {i \in Ids(st) : st[i].active}

CostNow(st) ==
    [i \in Ids(st) |-> compute_maintenance_cost(st[i], AgeDays(st[i], now))]

TrueCost(st) == SumOver(ActiveIds(st), CostNow(st))

C9_WithinBudgetUnchanged ==
    [][(last'.op = "metabolize" /\ TrueCost(units) <= effective_budget) =>
          /\ last'.ret = <<>>
          /\ ActiveIds(units') = ActiveIds(units)]_vars

C9_Witness ==
    /\ last.op = "metabolize"
    /\ ~last.dry
    /\ last.ret = <<>>
    /\ Cardinality(ActiveIds(units)) >= 2
    /\ TrueCost(units) = effective_budget

(***************************************************************************)
(* C10: after metabolize(dry_run=false) from an over-budget state in      *)
(* which the active units of utility <= 5.0 carry at least the excess,    *)
(* total_cost() <= effective_budget(), and a metabolize() repeated at     *)
(* once returns [].                                                        *)
(***************************************************************************)
EvictableCost(st) ==
    SumOver({i \in ActiveIds(st) : Utility(st[i]) <= 5000}, CostNow(st))

C10_BackWithinBudget ==
    [][(/\ last'.op = "metabolize"
        /\ ~last'.dry
        /\ TrueCost(units) > effective_budget
        /\ EvictableCost(units) >= TrueCost(units) - effective_budget) =>
          /\ total_cost(units') <= effective_budget
          /\ \A tb \in TieBreaks : metabolize(units', FALSE, tb).archived = <<>>]_vars

C10_Witness ==
    /\ last.op = "metabolize"
    /\ ~last.dry
    /\ Len(last.ret) >= 1
    /\ last.arg > effective_budget
    /\ total_cost(units) <= effective_budget
    /\ \E i \in ActiveIds(units) : Utility(units[i]) > 5000

(***************************************************************************)
(* C11: forgetting never deletes. Under remember, recall (with the        *)
(* firing of prospectives), consolidation (with contradiction handling),  *)
(* metabolize and demote_unanchored, every stored id stays stored, so the *)
(* count of all rows never decreases; a stored unit changes only in       *)
(* active, which goes to false, and in retrieval_count, last_accessed,    *)
(* maintenance_cost, consolidated_ts, salience and tags.                  *)
(***************************************************************************)
Kept(u) ==
    <<u.id, u.type, u.content, u.timestamp, u.embedding, u.relations,
      u.version, u.prev_hash, u.signature, u.trigger_condition,
      u.source_agent, u.trust_score>>

C12_ActiveOnlyByAccept ==
    [][\A i \in Ids(units) \cap Ids(units') :
          (~units[i].active /\ units'[i].active) =>
              last'.op \in {"accept_proposal", "anchor"}]_vars

(***************************************************************************)
(* C13: after store(u), get(u.id) returns a unit equal to u in every      *)
(* field except retrieval_count, last_accessed and maintenance_cost.      *)
(***************************************************************************)
C13_StoreGetRoundTrip ==
    (last.op = "store" /\ ~last.ret.raised) =>
        {[x EXCEPT !.retrieval_count = 0, !.last_accessed = 0,
                   !.maintenance_cost = 0] : x \in last.ret.got}
          = {[last.arg EXCEPT !.retrieval_count = 0, !.last_accessed = 0,
                              !.maintenance_cost = 0]}

(***************************************************************************)
(* C15: a store(unit) that fails on the length of the embedding leaves    *)
(* the table as it was: no row added, and the unit stored before under    *)
(* the id is still what get returns.                                       *)
(***************************************************************************)
C15_FailedStoreChangesNothing ==
    [][(last'.op = "store" /\ last'.ret.raised) =>
          /\ units' = units
          /\ last'.ret.got = last'.before]_vars

(***************************************************************************)
(* C14: under any interleaving of store, update_access, deactivate and    *)
(* mark_consolidated calls on one id, the table never holds two rows of   *)
(* the id, and when no call is in progress it holds the row, which is     *)
(* the one written by the call that completed last.                       *)
(***************************************************************************)
C14_OneRowPerId ==
    /\ Cardinality(RowsOf(TheId)) <= 1
    /\ (\A c \in Callers : calls[c].op = "idle") =>
          /\ RowsOf(TheId) # {}
          /\ last.op # "init" => \A k \in RowsOf(TheId) : rows[k] = last.arg

(***************************************************************************)
(* C16: every unit retrieve(query, top_k, type_filter, min_salience)      *)
(* returns is active, has the type of the filter when one is given and    *)
(* salience >= min_salience, and at most top_k units are returned, with   *)
(* candidates from the vector search and on the fallback without them.    *)
(***************************************************************************)
C16_RetrieveFilters ==
    last.op = "retrieve" =>
        /\ Len(last.ret) <= last.arg.top_k
        /\ \A i \in Range(last.ret) :
              /\ last.before[i].active
              /\ last.arg.type_filter # "" =>
                    last.before[i].type = last.arg.type_filter
              /\ last.before[i].salience >= last.arg.min_salience

(***************************************************************************)
(* C17 as stated: retrieve(update_access=false) changes no unit; with     *)
(* update_access=true each returned unit has retrieval_count one higher   *)
(* and at most last_accessed changed besides, and no other unit changes.  *)
(***************************************************************************)
C17_RetrieveFrame ==
    [][last'.op = "retrieve" =>
          IF ~last'.arg.update_access THEN units' = units
          ELSE /\ Ids(units') = Ids(units)
               /\ \A i \in Ids(units) :
                     IF i \in Range(last'.ret)
                     THEN [units'[i] EXCEPT !.last_accessed = 0]
                            = [units[i] EXCEPT !.retrieval_count = @ + 1,
                                               !.last_accessed = 0]
                     ELSE units'[i] = units[i]]_vars

(***************************************************************************)
(* C17, amended: retrieve(update_access=false) changes no unit, and so    *)
(* does retrieve(update_access=true) when the vector search gives no      *)
(* candidates and the units come from query; with candidates, each        *)
(* returned unit has retrieval_count one higher and at most last_accessed *)
(* changed besides, and no other unit changes.                            *)
(***************************************************************************)
C17_RetrieveFrameScored ==
    [][last'.op = "retrieve" =>
          IF ~last'.arg.update_access \/ ~last'.arg.scored THEN units' = units
          ELSE /\ Ids(units') = Ids(units)
               /\ \A i \in Ids(units) :
                     IF i \in Range(last'.ret)
                     THEN [units'[i] EXCEPT !.last_accessed = 0]
                            = [units[i] EXCEPT !.retrieval_count = @ + 1,
                                               !.last_accessed = 0]
                     ELSE units'[i] = units[i]]_vars

\* a retrieve with update_access that returned units and left one out
C17_Witness ==
    /\ last.op = "retrieve"
    /\ last.arg.update_access
    /\ last.arg.scored
    /\ Len(last.ret) >= 1
    /\ Ids(units) \ Range(last.ret) # {}
    /\ \A i \in Range(last.ret) :
          units[i].retrieval_count = last.before[i].retrieval_count + 1

(***************************************************************************)
(* C18: when recall(query) returns, every prospective unit that was       *)
(* active with a trigger of similarity >= trigger_threshold is inactive;  *)
(* a fired prospective stays inactive, so that check_triggers and         *)
(* list_active never return it and no later recall fires it again.        *)
(***************************************************************************)
C18_FiredStaysFired ==
    [][/\ last'.op = "recall" =>
             \A i \in Ids(units) :
                 (/\ units[i].type = "prospective"
                  /\ units[i].active
                  /\ units[i].trigger_condition # ""
                  /\ Sim(last'.query, units[i].embedding) >= TriggerThreshold) =>
                     (i \in fired' /\ ~units'[i].active)
       /\ \A i \in fired :
             /\ ~units'[i].active
             /\ i \notin Range(check_triggers(units', "b"))
             /\ i \notin Range(query(units', "prospective", TRUE, 0, 100, FALSE))]_vars

(***************************************************************************)
(* C19: import_package with auto_accept=false stores every incoming unit  *)
(* inactive, tagged transplant and proposal, with source_agent and        *)
(* trust_score set; a staged unit is not returned by recall and not       *)
(* counted by metabolism, and stays inactive until accept_proposal(id),   *)
(* which makes it active and replaces the tag proposal by accepted.       *)
(***************************************************************************)
Staged(u) == ~u.active /\ "proposal" \in u.tags

C19_ProposalsStayOut ==
    [][/\ (last'.op = "import_package" /\ ~last'.auto_accept) =>
             \A k \in 1..Len(last'.ret) :
                 /\ Staged(units'[last'.ret[k]])
                 /\ "transplant" \in units'[last'.ret[k]].tags
                 /\ units'[last'.ret[k]].source_agent = last'.arg
                 /\ units'[last'.ret[k]].trust_score = 85
       /\ \A i \in Ids(units) : Staged(units[i]) =>
             IF last'.op = "accept_proposal" /\ last'.id = i
             THEN /\ units'[i].active
                  /\ "accepted" \in units'[i].tags
                  /\ "proposal" \notin units'[i].tags
             ELSE /\ ~units'[i].active
                  /\ last'.op = "recall" => i \notin Range(last'.ret)
                  /\ last'.op = "metabolize" =>
                        i \notin last'.before \cup Range(last'.ret)]_vars

(***************************************************************************)
(* C20: when the package has no signature, an empty one, or one that is   *)
(* not agent_id's signature of the package without it (content or         *)
(* agent_id altered after the export), import_package returns [] and      *)
(* writes nothing, and verify_package leaves the package as it was given. *)
(***************************************************************************)
C20_RejectedPackageWritesNothing ==
    [][last'.op = "import_package" =>
          /\ last'.before.left = last'.before.given
          /\ last'.before.how # "none" => (last'.ret = <<>> /\ units' = units)]_vars

\* an altered package was rejected by a store that holds units, and the
\* package as exported is one that import_package takes
C20_Witness ==
    /\ last.op = "import_package"
    /\ last.before.how = "content"
    /\ last.ret = <<>>
    /\ Ids(units) # {}
    /\ \E package \in packages :
          /\ last.before.given = AlteredPackage(package, "content")
          /\ verify_package(package, NoTrustedKeys).valid

(***************************************************************************)
(* C21: when a trusted_keys mapping is supplied, empty or not, a package  *)
(* whose agent_id is not among its keys is rejected whatever its          *)
(* signature: verify_package returns false, and import_package returns [] *)
(* and writes nothing.                                                     *)
(***************************************************************************)
C21_UnknownAgentRejected ==
    [][(/\ last'.op = "import_package"
        /\ last'.before.trusted.given
        /\ last'.arg \notin last'.before.trusted.keys) =>
          /\ ~last'.before.valid
          /\ last'.ret = <<>>
          /\ units' = units]_vars

(***************************************************************************)
(* C22 as stated: export_package by one agent, then import_package with   *)
(* auto_accept=true and the exporter's key trusted, gives for every       *)
(* exported unit a stored unit with the same id, content, type and tags.  *)
(***************************************************************************)
C22_RoundTripRecovers ==
    [][(/\ last'.op = "import_package"
        /\ last'.auto_accept
        /\ last'.before.trusted.given
        /\ last'.arg \in last'.before.trusted.keys) =>
          /\ Len(last'.ret) = Len(last'.before.given.units)
          /\ \A k \in 1..Len(last'.before.given.units) :
                \E u \in {last'.before.given.units[k]} :
                   /\ u.id \in Ids(units')
                   /\ units'[u.id].content = u.content
                   /\ units'[u.id].type = u.type
                   /\ units'[u.id].tags = u.tags]_vars

(***************************************************************************)
(* C22, amended: the stored unit has the same id, content and type, and   *)
(* the exported tags together with transplant and accepted.               *)
(***************************************************************************)
C22_RoundTripRecoversTagged ==
    [][(/\ last'.op = "import_package"
        /\ last'.auto_accept
        /\ last'.before.trusted.given
        /\ last'.arg \in last'.before.trusted.keys) =>
          /\ Len(last'.ret) = Len(last'.before.given.units)
          /\ \A k \in 1..Len(last'.before.given.units) :
                \E u \in {last'.before.given.units[k]} :
                   /\ u.id \in Ids(units')
                   /\ units'[u.id].content = u.content
                   /\ units'[u.id].type = u.type
                   /\ units'[u.id].tags = u.tags \cup {"transplant", "accepted"}]_vars

\* a package of two units, one of them tagged, was imported with its
\* exporter's key trusted
C22_Witness ==
    /\ last.op = "import_package"
    /\ last.auto_accept
    /\ last.before.trusted.given
    /\ last.arg \in last.before.trusted.keys
    /\ Len(last.ret) >= 2
    /\ \E k \in 1..Len(last.before.given.units) :
          "prospective" \in last.before.given.units[k].tags
    /\ \A k \in 1..Len(last.ret) : last.ret[k] \in Ids(units)

\* anchoring among remember and the passing of days
NextAnchor ==
    \/ RememberAny
    \/ AnchorAny
    \/ DemoteUnanchoredAny
    \/ Tick

InitAnchor ==
    /\ InitFresh
    /\ naclOK
    /\ ~llmOn

SpecAnchor == InitAnchor /\ [][NextAnchor]_vars

(***************************************************************************)
(* C23: demote_unanchored(dry_run=true) returns exactly the ids            *)
(* find_unanchored() returns, in the same order, and changes no store      *)
(* state.                                                                  *)
(***************************************************************************)
C23_DryRunDemotesNothing ==
    [][(last'.op = "demote_unanchored" /\ last'.dry) =>
          /\ last'.ret = find_unanchored(units)
          /\ units' = units]_vars

\* a dry run that reported two unanchored units
C23_Witness ==
    /\ last.op = "demote_unanchored"
    /\ last.dry
    /\ Len(last.ret) >= 2
    /\ last.ret = find_unanchored(units)

(***************************************************************************)
(* Dreaming on the store an earlier session left: three active semantic   *)
(* units, or on a fresh store                                              *)
(***************************************************************************)
\* ids of the earlier session's units lie apart from those of this session
PersistedSemantic(k, content) ==
    The({[unit0 EXCEPT !.signature = <<LocalKey, content_hash(unit0)>>] :
         unit0 \in {MemoryUnit(10 + k, k, "semantic", content, content)}})

DreamStore ==
    store(store(store(<<>>, PersistedSemantic(1, "a")),
                PersistedSemantic(2, "b")),
          PersistedSemantic(3, "a"))

NextDream ==
    \/ RememberAny
    \/ DreamAny

InitDream ==
    /\ \/ units = <<>> /\ now = 1
       \/ units = DreamStore /\ now = 4
    /\ nextId = 1
    /\ newCount = 0
    /\ earned = 0
    /\ packages = {}
    /\ naclOK = TRUE
    /\ llmOn \in BOOLEAN
    /\ last = Result("init")
    /\ rows = <<>>
    /\ calls = <<>>
    /\ fired = {}

SpecDream == InitDream /\ [][NextDream]_vars

InspiredBy(u) == {j \in 1..Len(u.relations) : u.relations[j][2] = "inspired_by"}

(***************************************************************************)
(* C24: every insight unit dream() returns and stores has at least two    *)
(* inspired_by relations, the tag dream, kind insight and salience 0.92,  *)
(* whatever links the LLM output lists for it.                            *)
(***************************************************************************)
C24_InsightsAreLinked ==
    [][last'.op = "dream" =>
          \A k \in 1..Len(last'.ret) :
             /\ last'.ret[k] \in Ids(units')
             /\ \E u \in {units'[last'.ret[k]]} :
                   /\ Cardinality(InspiredBy(u)) >= 2
                   /\ "dream" \in u.tags
                   /\ u.type = "insight"
                   /\ u.salience = 92]_vars

\* the units vector_search sees when the k-th created insight is checked:
\* the active units before the call and the insights created before it
SeenAtCheck(st, created, k) ==
    {i \in Ids(st) : st[i].active} \cup {created[j] : j \in 1..(k - 1)}

(***************************************************************************)
(* C25: dream() never stores an insight whose novelty_score is below      *)
(* min_score or whose embedding is more similar than novelty_threshold to *)
(* a unit active when it is checked, the insights stored earlier in the   *)
(* same call included; without an LLM or with fewer than n_samples active *)
(* semantic units it returns [] and writes nothing.                       *)
(***************************************************************************)
C25_NoveltyGate ==
    [][last'.op = "dream" =>
          /\ Ids(units') = Ids(units) \cup Range(last'.ret)
          /\ Range(last'.ret) \cap Ids(units) = {}
          /\ \A i \in Ids(units) : units'[i] = units[i]
          /\ Len(last'.ret) <= Cardinality(Passing(last'.arg))
          /\ \A k \in 1..Len(last'.ret) :
                \E u \in {units'[last'.ret[k]]} :
                   /\ \E j \in Passing(last'.arg) : last'.arg[j].insight = u.content
                   /\ \A i \in SeenAtCheck(units, last'.ret, k) :
                         Sim(u.embedding, units'[i].embedding) <= NoveltyThreshold
          /\ (~llmOn \/ Len(query(units, "semantic", TRUE, 0, 500, FALSE)) < NSamples)
                => (last'.ret = <<>> /\ units' = units)]_vars

\* a dream call whose LLM proposed the same new insight twice, both with a
\* passing score, and which stored it once
C25_Witness ==
    /\ last.op = "dream"
    /\ Len(last.ret) = 1
    /\ Len(last.arg) = 2
    /\ last.arg[1].insight = last.arg[2].insight
    /\ \A k \in 1..2 : last.arg[k].novelty_score >= MinScore

(***************************************************************************)
(* Identity.compute_root_hash and Engram.wakeup                            *)
(***************************************************************************)
\* sorted(ms, key): ascending and stable, equal keys keep their order in ms
StableSort(ms, key) ==
    [p \in 1..Len(ms) |->
        ms[CHOOSE k \in 1..Len(ms) :
              Cardinality({j \in 1..Len(ms) :
                              \/ key[j] < key[k]
                              \/ key[j] = key[k] /\ j < k}) = p - 1]]

EmptyRoot == <<"sha256", "empty">>

\* one level of the tree: the last hash is repeated when the level is odd
NextLevel(hashes) ==
    The({[i \in 1..(Len(padded) \div 2) |->
             <<"sha256", padded[2 * i - 1], padded[2 * i]>>] :
         padded \in {IF Len(hashes) % 2 = 1
                     THEN Append(hashes, hashes[Len(hashes)])
                     ELSE hashes}})

RECURSIVE Reduce(_)
Reduce(hashes) == IF Len(hashes) <= 1 THEN hashes[1] ELSE Reduce(NextLevel(hashes))

\* memories: a sequence of units
compute_root_hash(memories) ==
    IF memories = <<>> THEN EmptyRoot
    ELSE The({Reduce([k \in 1..Len(sorted) |-> content_hash(sorted[k])]) :
              sorted \in {StableSort(memories,
                                     [k \in 1..Len(memories) |-> memories[k].timestamp])}})

\* for m in reversed(all_mem): the first consolidated_ts that is set
last_consolidation(all_mem) ==
    The({IF marked = {} THEN NoTs
         ELSE all_mem[CHOOSE k \in marked : \A j \in marked : j <= k].consolidated_ts :
         marked \in {{k \in 1..Len(all_mem) : all_mem[k].consolidated_ts # NoTs}}})

wakeup_attestation(root_hash, last_cons) ==
    The({[attestation |-> payload, signature |-> sign(payload)] :
         payload \in {[type |-> "wakeup", agent_id |-> public_key_b64,
                       timestamp |-> now, root_hash |-> root_hash,
                       last_consolidation |-> last_cons]}})

\* the attestation, then wakeup_consolidate, metabolize and the anchoring
\* audit, which demotes when more than 10 units are unanchored
Wakeup(out, tb, tbm) ==
    /\ nextId + Cardinality(NonEmptyFacts(out.facts)) - 1 <= MaxUnits
    /\ \E all_mem \in {query(units, "", TRUE, 0, 10000, FALSE)} :
       \E att \in {wakeup_attestation(
                       compute_root_hash([k \in 1..Len(all_mem) |-> units[all_mem[k]]]),
                       last_consolidation([k \in 1..Len(all_mem) |-> units[all_mem[k]]]))} :
       \E r \in {consolidate_batch(units, check_wakeup(units), out, nextId, now, tb)} :
       \E m \in {metabolize(r.units, FALSE, tbm)} :
       /\ units' = IF Len(find_unanchored(m.units)) > 10
                   THEN DemoteLoop(m.units, find_unanchored(m.units), m.units)
                   ELSE m.units
       /\ nextId' = nextId + Len(r.created)
       /\ now' = now + Len(r.created)
       /\ last' = [Result("wakeup") EXCEPT
                      !.ret = r.created, !.arg = att, !.before = units]
       /\ UNCHANGED <<newCount, earned, packages, naclOK, llmOn, rows, calls, fired>>

WakeupAny ==
    \E out \in OutputsIf(check_wakeup(units) # <<>> /\ llmOn),
       tb \in TieBreaksIf(check_wakeup(units) # <<>> /\ llmOn),
       tbm \in TieBreaks :
        Wakeup(out, tb, tbm)

NextWakeup ==
    \/ RememberAny
    \/ WakeupAny
    \/ Tick

InitWakeup ==
    /\ InitFresh
    /\ naclOK
    /\ llmOn

SpecWakeup == InitWakeup /\ [][NextWakeup]_vars

\* the latest consolidated_ts among the units of table st, NoTs when none
LatestConsolidation(st) ==
    IF \A i \in Ids(st) : st[i].consolidated_ts = NoTs THEN NoTs
    ELSE CHOOSE t \in {st[i].consolidated_ts : i \in Ids(st)} :
            \A i \in Ids(st) : st[i].consolidated_ts <= t

(***************************************************************************)
(* C26: the attestation of wakeup() carries the latest consolidated_ts    *)
(* over the stored units as last_consolidation; on an empty store         *)
(* last_consolidation is empty and root_hash is SHA256("empty").          *)
(***************************************************************************)
C26_AttestsLatestConsolidation ==
    [][last'.op = "wakeup" =>
          /\ last'.arg.attestation.last_consolidation = LatestConsolidation(units)
          /\ Ids(units) = {} =>
                /\ last'.arg.attestation.last_consolidation = NoTs
                /\ last'.arg.attestation.root_hash = EmptyRoot]_vars

(***************************************************************************)
(* consolidate_batch left by an exception after the LLM call               *)
(***************************************************************************)
\* the table when embed or store raises at fact nf + 1 (the contradiction
\* of that fact was handled already), or, with nf = Len(facts), when
\* mark_consolidated raises at episode nm + 1
consolidate_batch_raising(st, episodes, facts, id0, t0, tb, nf, nm) ==
    The({IF nf < Len(facts)
         THEN [units |-> IF facts[nf + 1].contradicts # ""
                         THEN _handle_contradiction(r.units, facts[nf + 1].contradicts, tb)
                         ELSE r.units,
               created |-> r.created]
         ELSE [units |-> MarkAll(r.units, Take(episodes, nm), t0 + Len(r.created)),
               created |-> r.created] :
         r \in {ConsolidateFacts(st, Take(facts, nf), episodes, get_last_hash(st),
                                 <<>>, id0, t0, tb)}})

\* the places an exception can leave the loops at
RaisePoints(episodes, facts) ==
    {<<nf, 0>> : nf \in {n \in 0..(Len(facts) - 1) : facts[n + 1].content # ""}}
       \cup {<<Len(facts), nm>> : nm \in 0..(Len(episodes) - 1)}

ConsolidateRaises(out, tb, nf, nm) ==
    /\ llmOn
    /\ out.ok
    /\ nextId + Cardinality(NonEmptyFacts(out.facts)) - 1 <= MaxUnits
    /\ \E unconsolidated \in {check_wakeup(units)} :
       /\ unconsolidated # <<>>
       /\ <<nf, nm>> \in RaisePoints(unconsolidated, out.facts)
       /\ \E r \in {consolidate_batch_raising(units, unconsolidated, out.facts,
                                               nextId, now, tb, nf, nm)} :
          /\ units' = r.units
          /\ nextId' = nextId + Len(r.created)
          /\ now' = now + Len(r.created)
          /\ last' = [Result("consolidate_raised") EXCEPT
                         !.ret = r.created, !.episodes = unconsolidated,
                         !.called = TRUE, !.parsed = TRUE,
                         !.arg = out.facts, !.before = units]
    /\ UNCHANGED <<newCount, earned, packages, naclOK, llmOn, rows, calls, fired>>

ConsolidateRaisesAny ==
    \E out \in LLMOutputs, tb \in TieBreaks, nf \in 0..MaxFacts, nm \in 0..MaxUnits :
        ConsolidateRaises(out, tb, nf, nm)

NextAtomic ==
    \/ RememberAny
    \/ WakeupConsolidateAny
    \/ ConsolidateRaisesAny

InitAtomic ==
    /\ InitFresh
    /\ naclOK
    /\ llmOn

SpecAtomic == InitAtomic /\ [][NextAtomic]_vars

(***************************************************************************)
(* C27: consolidate_batch is all-or-nothing: when an exception leaves it  *)
(* after the LLM call, the store holds either every semantic unit of the  *)
(* batch with every episode marked consolidated, or none of its units,    *)
(* no episode marked and no unit deactivated.                             *)
(***************************************************************************)
C27_BatchAllOrNothing ==
    [][last'.op = "consolidate_raised" =>
          \/ /\ Len(last'.ret) = Cardinality(NonEmptyFacts(last'.arg))
             /\ \A k \in 1..Len(last'.ret) : last'.ret[k] \in Ids(units')
             /\ \A k \in 1..Len(last'.episodes) :
                   units'[last'.episodes[k]].consolidated_ts # NoTs
          \/ units' = units]_vars

(***************************************************************************)
(* Writers that share the table: a consolidate_batch and a remember, each *)
(* store request one step                                                  *)
(***************************************************************************)
IdleWriter(n) ==
    [op |-> "idle", pc |-> "idle", unit |-> PersistedUnit, n |-> n,
     prev |-> NoHash, facts |-> <<>>, episodes |-> <<>>, created |-> <<>>]

\* the episode an earlier session left, not yet consolidated
PersistedEpisode ==
    The({[unit0 EXCEPT !.signature = <<LocalKey, content_hash(unit0)>>] :
         unit0 \in {MemoryUnit(11, 1, "episodic", "a", "a")}})

\* the facts of the batches explored: no empty content, no contradiction
BatchFacts == {<<Fact("a", 90, TRUE, "")>>,
               <<Fact("a", 90, TRUE, ""), Fact("b", 90, TRUE, "")>>}

\* remember up to its store: prev_hash = get_last_hash(), the unit is built
\* and signed
RememberRead(c, content) ==
    /\ calls[c].op = "idle"
    /\ calls[c].n < MaxCalls
    /\ nextId <= MaxUnits
    /\ \E unit0 \in {[MemoryUnit(nextId, now, "semantic", content, content)
                          EXCEPT !.prev_hash = get_last_hash(units)]} :
          calls' = [calls EXCEPT ![c] = [@ EXCEPT
                       !.op = "remember", !.pc = "store", !.n = @ + 1,
                       !.unit = [unit0 EXCEPT !.signature = sign_memory(unit0)]]]
    /\ nextId' = nextId + 1
    /\ now' = now + 1
    /\ UNCHANGED <<units, newCount, earned, packages, naclOK, llmOn, last, rows, fired>>

\* store.store(unit), on_new_memory of a unit that is no episode, earn(0.5)
RememberStore(c) ==
    /\ calls[c].op = "remember"
    /\ calls[c].pc = "store"
    /\ units' = store(units, calls[c].unit)
    /\ earned' = earn(earned, 5)
    /\ calls' = [calls EXCEPT ![c] = IdleWriter(@.n)]
    /\ last' = [Result("remember") EXCEPT !.id = calls[c].unit.id]
    /\ UNCHANGED <<now, nextId, newCount, packages, naclOK, llmOn, rows, fired>>

\* consolidate_batch(episodes) after the LLM answered: prev_hash =
\* get_last_hash()
BatchBegin(c, facts) ==
    /\ calls[c].op = "idle"
    /\ calls[c].n < MaxCalls
    /\ llmOn
    /\ check_wakeup(units) # <<>>
    /\ calls' = [calls EXCEPT ![c] = [@ EXCEPT
                    !.op = "consolidate_batch", !.pc = "loop", !.n = @ + 1,
                    !.prev = get_last_hash(units), !.facts = facts,
                    !.episodes = check_wakeup(units)]]
    /\ UNCHANGED <<units, now, nextId, newCount, earned, packages, naclOK, llmOn,
                   last, rows, fired>>

\* one pass of the loop over the facts: the unit is built on the running
\* prev_hash and stored
BatchStore(c) ==
    /\ calls[c].op = "consolidate_batch"
    /\ calls[c].facts # <<>>
    /\ nextId <= MaxUnits
    /\ \E unit \in {[MemoryUnit(nextId, now, "semantic", Head(calls[c].facts).content,
                                  Head(calls[c].facts).content)
                         EXCEPT !.salience = Head(calls[c].facts).salience,
                                !.relations = distilled_from(calls[c].episodes,
                                                             Head(calls[c].facts)),
                                !.prev_hash = calls[c].prev]} :
       /\ units' = store(units, unit)
       /\ calls' = [calls EXCEPT ![c] = [@ EXCEPT
                       !.prev = content_hash(unit), !.facts = Tail(@),
                       !.created = Append(@, unit.id)]]
    /\ nextId' = nextId + 1
    /\ now' = now + 1
    /\ UNCHANGED <<newCount, earned, packages, naclOK, llmOn, last, rows, fired>>

\* the loop over the episodes; the call returns
BatchMark(c) ==
    /\ calls[c].op = "consolidate_batch"
    /\ calls[c].facts = <<>>
    /\ units' = MarkAll(units, SelectSeq(calls[c].episodes, LAMBDA i : i \in Ids(units)),
                        now)
    /\ calls' = [calls EXCEPT ![c] = IdleWriter(@.n)]
    /\ last' = [Result("consolidate_batch") EXCEPT
                   !.ret = calls[c].created, !.episodes = calls[c].episodes]
    /\ UNCHANGED <<now, nextId, newCount, earned, packages, naclOK, llmOn, rows, fired>>

NextInterleave ==
    \E c \in Callers :
        \/ \E content \in Texts : RememberRead(c, content)
        \/ RememberStore(c)
        \/ \E facts \in BatchFacts : BatchBegin(c, facts)
        \/ BatchStore(c)
        \/ BatchMark(c)

InitInterleave ==
    /\ units = store(<<>>, PersistedEpisode)
    /\ now = 2
    /\ nextId = 1
    /\ newCount = 0
    /\ earned = 0
    /\ packages = {}
    /\ naclOK = TRUE
    /\ llmOn = TRUE
    /\ last = Result("init")
    /\ rows = <<>>
    /\ calls = [c \in Callers |-> IdleWriter(0)]
    /\ fired = {}

SpecInterleave == InitInterleave /\ [][NextInterleave]_vars

\* the units in the order they were written
WriteOrder(st) == ByTimestampAsc(st, Ids(st))

(***************************************************************************)
(* C28: the chain construction of consolidate_batch does not interleave   *)
(* with other writers: with a remember running during a batch, when both  *)
(* have returned every unit written has as prev_hash the content_hash of  *)
(* the unit written immediately before it, no two units share a           *)
(* predecessor, and verify_chain over all units is valid.                 *)
(***************************************************************************)
C28_ChainNotInterleaved ==
    (\A c \in Callers : calls[c].op = "idle") =>
        \E order \in {WriteOrder(units)} :
           /\ \A k \in 2..Len(order) :
                 units[order[k]].prev_hash = content_hash(units[order[k - 1]])
           /\ \A i, j \in Ids(units) :
                 (i # j /\ i # order[1] /\ j # order[1]) =>
                    units[i].prev_hash # units[j].prev_hash
           /\ verify_chain(units, Ids(units)).valid

(***************************************************************************)
(* compute_root_hash on the units of a table, given in any order           *)
(***************************************************************************)
MaxStamp == 3     \* timestamps of the units explored

\* the orders a list of the units of S can have
Orders(S) == {p \in [1..Cardinality(S) -> S] : \A j, k \in DOMAIN p : p[j] = p[k] => j = k}

UnitsIn(st, p) == [k \in DOMAIN p |-> st[p[k]]]

\* the tables explored: any units of ids 1..MaxUnits, timestamps repeated or not
RootStores ==
    UNION {[S -> {MemoryUnit(0, ts, "episodic", "a", "a") : ts \in 1..MaxStamp}] :
              S \in SUBSET (1..MaxUnits)}

RootCall(p) ==
    /\ last' = [Result("compute_root_hash") EXCEPT
                   !.arg = p, !.ret = compute_root_hash(UnitsIn(units, p))]
    /\ UNCHANGED <<units, now, nextId, newCount, earned, packages, naclOK, llmOn, rows, calls, fired>>

RootCallAny == \E p \in Orders(Ids(units)) : RootCall(p)

NextRoot == RootCallAny

InitRoot ==
    /\ \E st \in RootStores : units = [i \in DOMAIN st |-> [st[i] EXCEPT !.id = i]]
    /\ now = MaxStamp + 1
    /\ nextId = MaxUnits + 1
    /\ newCount = 0
    /\ earned = 0
    /\ packages = {}
    /\ naclOK = TRUE
    /\ llmOn = FALSE
    /\ last = Result("init")
    /\ rows = <<>>
    /\ calls = <<>>
    /\ fired = {}

SpecRoot == InitRoot /\ [][NextRoot]_vars

(***************************************************************************)
(* C29: compute_root_hash depends only on the set of units: every order   *)
(* of the same units, units of equal timestamp included, gives the same   *)
(* root; one unit gives its content_hash, an odd level repeats its last   *)
(* hash, and no unit gives SHA256("empty").                               *)
(***************************************************************************)
C29_RootOfTheSet ==
    last.op = "compute_root_hash" =>
       /\ \A p \in Orders(Ids(units)) :
             compute_root_hash(UnitsIn(units, p)) = last.ret
       /\ Ids(units) = {} => last.ret = EmptyRoot
       /\ \A i \in Ids(units) : Ids(units) = {i} => last.ret = content_hash(units[i])
       /\ Cardinality(Ids(units)) = 3 =>
             \E p \in Orders(Ids(units)) :
                /\ \A k \in 1..2 : units[p[k]].timestamp <= units[p[k + 1]].timestamp
                /\ last.ret = <<"sha256",
                                <<"sha256", content_hash(units[p[1]]), content_hash(units[p[2]])>>,
                                <<"sha256", content_hash(units[p[3]]), content_hash(units[p[3]])>> >>

(***************************************************************************)
(* CRDTMerger.merge                                                        *)
(***************************************************************************)
Max(a, b) == IF a >= b THEN a ELSE b

\* as_stored: the timestamps are the ISO-8601 strings MemoryUnit holds, which
\* have no attribute timestamp, so each side reads datetime.now() instead;
\* later: the second reading of the clock is later than the first
merge(local, incoming, as_stored, later) ==
    The({The({[winner EXCEPT
                 !.relations = @ \o SelectSeq(loser.relations,
                                      LAMBDA r : r \notin Range(winner.relations)),
                 !.salience = Max(@, (loser.salience * 95) \div 100),
                 !.version = Max(local.version, incoming.version) + 1] :
              loser \in {IF winner = incoming THEN local ELSE incoming}}) :
         winner \in {IF (IF as_stored THEN (IF later THEN now + 1 ELSE now)
                                      ELSE incoming.timestamp)
                           > (IF as_stored THEN now ELSE local.timestamp)
                     THEN incoming ELSE local}})

\* the two versions of one unit explored
MergeRelations == {<<<<2, "distilled_from">>>>,
                   <<<<2, "distilled_from">>, <<3, "distilled_from">>>>,
                   <<<<3, "distilled_from">>, <<3, "distilled_from">>>>}

MergeUnits(content, versions) ==
    {[MemoryUnit(1, ts, "semantic", content, content) EXCEPT
         !.salience = sal, !.relations = rel, !.version = ver] :
       ts \in 1..2, sal \in {40, 80}, rel \in MergeRelations, ver \in versions}

MergeCall(local, incoming, as_stored, later) ==
    /\ last' = [Result("merge") EXCEPT
                   !.arg = [local |-> local, incoming |-> incoming,
                            as_stored |-> as_stored],
                   !.ret = merge(local, incoming, as_stored, later)]
    /\ UNCHANGED <<units, now, nextId, newCount, earned, packages, naclOK, llmOn, rows, calls, fired>>

MergeCallAny ==
    \E local \in MergeUnits("a", {2}), incoming \in MergeUnits("b", {1, 3}),
       as_stored \in BOOLEAN, later \in BOOLEAN :
        MergeCall(local, incoming, as_stored, later)

NextMerge == MergeCallAny

InitMerge ==
    /\ InitFresh
    /\ naclOK
    /\ ~llmOn

SpecMerge == InitMerge /\ [][NextMerge]_vars

(***************************************************************************)
(* C30: merge(local, incoming) of two units of one id is last-write-wins: *)
(* the result has the content of the unit of the later timestamp, local   *)
(* on a tie, for string timestamps as stored and for datetime timestamps  *)
(* (so merge(incoming, local) chooses the same content when the           *)
(* timestamps differ); its salience is max(winner.salience, 0.95 *        *)
(* loser.salience), its relations the duplicate-free union, its version   *)
(* max(local.version, incoming.version) + 1.                              *)
(***************************************************************************)
C30_LastWriteWins ==
    last.op = "merge" =>
       \E winner \in {IF last.arg.incoming.timestamp > last.arg.local.timestamp
                       THEN last.arg.incoming ELSE last.arg.local} :
       \E loser \in {IF winner = last.arg.incoming THEN last.arg.local
                      ELSE last.arg.incoming} :
          /\ last.ret.content = winner.content
          /\ last.ret.salience = Max(winner.salience, (loser.salience * 95) \div 100)
          /\ Range(last.ret.relations) = Range(winner.relations) \cup Range(loser.relations)
          /\ \A j, k \in 1..Len(last.ret.relations) :
                last.ret.relations[j] = last.ret.relations[k] => j = k
          /\ last.ret.version = Max(last.arg.local.version, last.arg.incoming.version) + 1

\* the places in the order ms at which the chain of table st is broken
BrokenAt(st, ms) ==
    {k \in 1..Len(ms) :
        \/ k >= 2 /\ st[ms[k]].prev_hash # content_hash(st[ms[k - 1]])
        \/ BadlySigned(st[ms[k]])}

(***************************************************************************)
(* C31: verify_chain(units) examines the units in ascending timestamp     *)
(* order and returns (false, id) for the first unit in that order whose   *)
(* prev_hash differs from the content_hash of its predecessor or whose    *)
(* non-empty signature is invalid; it returns (true, none) exactly when   *)
(* there is no such unit, the first unit having no predecessor.           *)
(***************************************************************************)
C31_FirstBrokenUnit ==
    last.op = "verify_chain" =>
       \E ms \in {ByTimestampAsc(last.arg.units, last.arg.ids)} :
       \E broken \in {BrokenAt(last.arg.units, ms)} :
          /\ last.ret.valid <=> broken = {}
          /\ broken = {} => last.ret.id = 0
          /\ broken # {} =>
                last.ret.id = ms[CHOOSE k \in broken : \A j \in broken : k <= j]

\* a chain of three units was verified; the second and the third are broken
C31_Witness ==
    /\ last.op = "verify_chain"
    /\ Cardinality(last.arg.ids) = 3
    /\ ~last.ret.valid
    /\ \E ms \in {ByTimestampAsc(last.arg.units, last.arg.ids)} :
          /\ {2, 3} \subseteq BrokenAt(last.arg.units, ms)
          /\ last.ret.id = ms[2]

(***************************************************************************)
(* C32: on_new_memory ignores units that are no episodes; for an episode  *)
(* the micro-counter grows by one, and exactly on every                   *)
(* micro_threshold-th episode since the last reset consolidate_batch is   *)
(* run on at most 20 unconsolidated episodes and the counter is reset to  *)
(* 0, with or without an LLM and whatever it answers; between calls the   *)
(* counter is in 0..micro_threshold-1.                                    *)
(***************************************************************************)
C32_MicroCounter ==
    [][last'.op = "remember" =>
          /\ newCount \in 0..(MicroThreshold - 1)
          /\ newCount' \in 0..(MicroThreshold - 1)
          /\ units'[last'.id].type # "episodic" =>
                /\ newCount' = newCount
                /\ last'.episodes = <<>>
                /\ last'.ret = <<>>
          /\ (units'[last'.id].type = "episodic" /\ newCount + 1 < MicroThreshold) =>
                /\ newCount' = newCount + 1
                /\ last'.episodes = <<>>
                /\ last'.ret = <<>>
          /\ (units'[last'.id].type = "episodic" /\ newCount + 1 = MicroThreshold) =>
                /\ newCount' = 0
                /\ last'.id \in Range(last'.episodes)
                /\ Len(last'.episodes) <= 20
                /\ \A k \in 1..Len(last'.episodes) :
                      /\ units'[last'.episodes[k]].type = "episodic"
                      /\ last'.episodes[k] \in Ids(units) =>
                            units[last'.episodes[k]].consolidated_ts = NoTs
                /\ last'.called = llmOn]_vars

\* the third episode: the counter started anew after the batch of the second
C32_Witness ==
    /\ last.op = "remember"
    /\ units[last.id].type = "episodic"
    /\ newCount = 1
    /\ last.episodes = <<>>
    /\ Cardinality({i \in Ids(units) : units[i].type = "episodic"}) = 3

(***************************************************************************)
(* consolidate_batch called on the unconsolidated episodes, with the LLM  *)
(* answer on record                                                        *)
(***************************************************************************)
ConsolidateBatch(out, tb) ==
    /\ nextId + Cardinality(NonEmptyFacts(out.facts)) - 1 <= MaxUnits
    /\ \E episodes \in {check_wakeup(units)} :
       \E r \in {consolidate_batch(units, episodes, out, nextId, now, tb)} :
       /\ units' = r.units
       /\ nextId' = nextId + Len(r.created)
       /\ now' = now + Len(r.created)
       /\ last' = [Result("consolidate_batch") EXCEPT
                      !.ret = r.created, !.episodes = episodes,
                      !.called = episodes # <<>> /\ llmOn,
                      !.parsed = episodes # <<>> /\ llmOn /\ out.ok,
                      !.arg = out.facts, !.glh = get_last_hash(units),
                      !.before = units]
       /\ UNCHANGED <<newCount, earned, packages, naclOK, llmOn, rows, calls, fired>>

ConsolidateBatchAny ==
    \E out \in OutputsIf(check_wakeup(units) # <<>> /\ llmOn),
       tb \in TieBreaksIf(check_wakeup(units) # <<>> /\ llmOn) :
        ConsolidateBatch(out, tb)

NextBatch ==
    \/ RememberAny
    \/ ConsolidateBatchAny

InitBatch ==
    /\ InitFresh
    /\ naclOK
    /\ llmOn

SpecBatch == InitBatch /\ [][NextBatch]_vars

(***************************************************************************)
(* C33: the semantic units one consolidate_batch call creates form a      *)
(* contiguous chain in iteration order: the first has prev_hash =         *)
(* get_last_hash() as read at the start of the batch, each later one the  *)
(* content_hash of the unit created just before it; a fact of empty       *)
(* content creates no unit and does not break the chain.                  *)
(***************************************************************************)
C33_BatchIsChained ==
    [][(last'.op = "consolidate_batch" /\ last'.parsed) =>
          \E facts \in {SelectSeq(last'.arg, LAMBDA f : f.content # "")} :
             /\ Len(last'.ret) = Len(facts)
             /\ \A k \in 1..Len(facts) :
                   /\ last'.ret[k] \in Ids(units') \ Ids(units)
                   /\ units'[last'.ret[k]].content = facts[k].content
                   /\ units'[last'.ret[k]].type = "semantic"
                   /\ units'[last'.ret[k]].prev_hash =
                         IF k = 1 THEN get_last_hash(units)
                         ELSE content_hash(units'[last'.ret[k - 1]])]_vars

\* a batch of two facts: the second unit is built on the first
C33_Witness ==
    /\ last.op = "consolidate_batch"
    /\ Len(last.ret) = 2
    /\ units[last.ret[2]].prev_hash = content_hash(units[last.ret[1]])
    /\ units[last.ret[1]].prev_hash = last.glh

(***************************************************************************)
(* Prospective.check_triggers, called directly: engram and engram_core    *)
(***************************************************************************)
Contexts == {"a", "b", "c"}

\* what the LLM of engram_core answers to "Does this context match this
\* trigger?"
Verdicts == {"YES", "NO"}

\* engram: the triggered units, each with its similarity
check_triggers_scored(st, context) ==
    The({[k \in 1..Len(ps) |-> <<ps[k], Sim(context, st[ps[k]].embedding)>>] :
         ps \in {check_triggers(st, context)}})

\* engram_core: a match below 0.85 is put to the LLM when there is one, and
\* kept only if the answer holds YES
check_triggers_core(st, context, verdict) ==
    The({[k \in 1..Len(ps) |-> <<ps[k], Sim(context, st[ps[k]].embedding)>>] :
         ps \in {SelectSeq(check_triggers(st, context),
                     LAMBDA p : (llmOn /\ Sim(context, st[p].embedding) < 85)
                                   => verdict = "YES")}})

CheckTriggers(context) ==
    /\ last' = [Result("check_triggers") EXCEPT
                   !.ret = check_triggers_scored(units, context), !.query = context]
    /\ UNCHANGED <<units, now, nextId, newCount, earned, packages, naclOK, llmOn, rows, calls, fired>>

CheckTriggersCore(context, verdict) ==
    /\ last' = [Result("check_triggers") EXCEPT
                   !.ret = check_triggers_core(units, context, verdict),
                   !.query = context, !.arg = verdict]
    /\ UNCHANGED <<units, now, nextId, newCount, earned, packages, naclOK, llmOn, rows, calls, fired>>

CheckTriggersAny == \E context \in Contexts : CheckTriggers(context)

CheckTriggersCoreAny ==
    \E context \in Contexts, verdict \in Verdicts : CheckTriggersCore(context, verdict)

NextTriggers ==
    \/ RememberAny
    \/ IntendAny
    \/ \E tb \in TieBreaks : Recall("b", "", tb)
    \/ CheckTriggersAny
    \/ CheckTriggersCoreAny

InitTriggers ==
    /\ InitFresh
    /\ naclOK

SpecTriggers == InitTriggers /\ [][NextTriggers]_vars

(***************************************************************************)
(* C34: check_triggers(context) returns exactly the active prospective    *)
(* units that have a trigger_condition and whose similarity to the        *)
(* context is >= trigger_threshold, each paired with that similarity,     *)
(* with or without an LLM; it changes no store state.                     *)
(***************************************************************************)
C34_TriggersByThreshold ==
    [][last'.op = "check_triggers" =>
          /\ units' = units
          /\ {last'.ret[k][1] : k \in 1..Len(last'.ret)} =
                {i \in Ids(units) :
                    /\ units[i].type = "prospective"
                    /\ units[i].active
                    /\ units[i].trigger_condition # ""
                    /\ Sim(last'.query, units[i].embedding) >= TriggerThreshold}
          /\ \A j, k \in 1..Len(last'.ret) : last'.ret[j][1] = last'.ret[k][1] => j = k
          /\ \A k \in 1..Len(last'.ret) :
                last'.ret[k][2] = Sim(last'.query, units[last'.ret[k][1]].embedding)]_vars

(***************************************************************************)
(* C35: metabolize evicts in ascending utility order: with a unit it      *)
(* deactivates, every active unit of lower utility is deactivated in the  *)
(* same run; it never deactivates a unit of utility > 5.0; it stops as    *)
(* soon as the remaining excess is <= 0; with dry_run=true it returns the *)
(* ids a real run would deactivate and leaves every active flag as it is. *)
(***************************************************************************)
C35_EvictsByUtility ==
    [][last'.op = "metabolize" =>
          /\ \A k \in 1..Len(last'.ret) :
                \E u \in {last'.ret[k]} :
                   /\ u \in ActiveIds(units)
                   /\ Utility(units[u]) <= 5000
                   /\ \A v \in ActiveIds(units) :
                         Utility(units[v]) < Utility(units[u]) => v \in Range(last'.ret)
                   /\ TrueCost(units) - effective_budget
                         - SumOver({last'.ret[j] : j \in 1..(k - 1)}, CostNow(units)) > 0
          /\ \E tb \in TieBreaks : last'.ret = metabolize(units, FALSE, tb).archived
          /\ ActiveIds(units') =
                IF last'.dry THEN ActiveIds(units) ELSE ActiveIds(units) \ Range(last'.ret)]_vars

\* a dry run over budget that named a unit while a unit of utility above
\* 5.0 was active
C35_Witness ==
    /\ last.op = "metabolize"
    /\ last.dry
    /\ Len(last.ret) >= 1
    /\ \A k \in 1..Len(last.ret) : units[last.ret[k]].active
    /\ \E i \in ActiveIds(units) : Utility(units[i]) > 5000

(***************************************************************************)
(* Anchoring of engram_core: writes to the SQLite table past the store     *)
(***************************************************************************)
\* the text of a tags column: json.dumps(list) quotes with ", str(list)
\* prints the repr, which quotes with ' and is JSON only for the empty list
json_dumps(tags) == <<"json", tags>>

py_str(tags) == IF tags = {} THEN json_dumps(tags) ELSE <<"repr", tags>>

\* json.loads(text): the list, or nothing when it raises JSONDecodeError
json_loads(text) == IF text[1] = "json" THEN {text[2]} ELSE {}

\* the tags column of a row: what the last UPDATE past the store wrote
\* (rws), else what store wrote with json.dumps
tags_column(st, rws, id) ==
    IF \E k \in 1..Len(rws) : rws[k].id = id
    THEN rws[CHOOSE k \in 1..Len(rws) :
                /\ rws[k].id = id
                /\ \A j \in (k + 1)..Len(rws) : rws[j].id # id].tags
    ELSE json_dumps(st[id].tags)

\* SQLiteStore.get: None for an unknown id; _row_to_unit raises when the
\* tags column does not parse
sqlite_get(st, rws, id) ==
    IF id \notin Ids(st) THEN [raised |-> FALSE, unit |-> {}]
    ELSE IF json_loads(tags_column(st, rws, id)) = {}
         THEN [raised |-> TRUE, unit |-> {}]
         ELSE [raised |-> FALSE,
               unit |-> {[st[id] EXCEPT
                            !.tags = The(json_loads(tags_column(st, rws, id)))]}]

\* the two UPDATE statements of engram_core's demote_unanchored, per unit
RECURSIVE DemoteLoopCore(_, _, _)
DemoteLoopCore(st, ms, snapshot) ==
    IF ms = <<>> THEN st
    ELSE DemoteLoopCore([st EXCEPT ![Head(ms)] = [@ EXCEPT
                            !.salience = (snapshot[Head(ms)].salience * DemotionFactor) \div 100,
                            !.tags = snapshot[Head(ms)].tags \cup {"unanchored_demoted"}]],
                        Tail(ms), snapshot)

DemoteUnanchoredCore(dry_run) ==
    \E unanchored \in {find_unanchored(units)} :
       /\ units' = IF dry_run THEN units ELSE DemoteLoopCore(units, unanchored, units)
       /\ rows' = IF dry_run THEN rows
                  ELSE rows \o [k \in 1..Len(unanchored) |->
                          [id |-> unanchored[k],
                           tags |-> py_str(units[unanchored[k]].tags
                                              \cup {"unanchored_demoted"})]]
       /\ last' = [Result("demote_unanchored") EXCEPT
                      !.ret = unanchored, !.dry = dry_run, !.before = units]
       /\ UNCHANGED <<now, nextId, newCount, earned, packages, naclOK, llmOn, calls, fired>>

DemoteUnanchoredCoreAny == \E dry_run \in BOOLEAN : DemoteUnanchoredCore(dry_run)

\* engram_core's anchor: tags that do not parse are read as no tags
AnchorCore(id, method) ==
    /\ id \in Ids(units)
    /\ \E tags \in {IF json_loads(tags_column(units, rows, id)) = {} THEN {}
                    ELSE The(json_loads(tags_column(units, rows, id)))} :
          /\ units' = [units EXCEPT ![id].tags = (tags \cup {method}) \ {"unanchored_demoted"}]
          /\ rows' = Append(rows,
                        [id |-> id,
                         tags |-> json_dumps((tags \cup {method}) \ {"unanchored_demoted"})])
    /\ last' = [Result("anchor") EXCEPT !.id = id]
    /\ UNCHANGED <<now, nextId, newCount, earned, packages, naclOK, llmOn, calls, fired>>

AnchorCoreAny ==
    \E id \in {i \in Ids(units) : units[i].type = "semantic"
                                    /\ "human_verified" \notin units[i].tags} :
       AnchorCore(id, "human_verified")

\* engram_core's anchoring among remember and the passing of days
NextAnchorCore ==
    \/ RememberAny
    \/ AnchorCoreAny
    \/ DemoteUnanchoredCoreAny
    \/ Tick

SpecAnchorCore == InitAnchor /\ [][NextAnchorCore]_vars

(***************************************************************************)
(* C36: demote_unanchored(dry_run=false) multiplies the salience by       *)
(* demotion_factor and adds the tag unanchored_demoted for exactly the    *)
(* units find_unanchored returned and changes no other field or unit;     *)
(* afterwards each demoted unit is still readable through get with its    *)
(* previous tags plus unanchored_demoted, and an immediately repeated     *)
(* find_unanchored returns none of them.                                  *)
(***************************************************************************)
C36_DemotionKeepsUnitsReadable ==
    [][(last'.op = "demote_unanchored" /\ ~last'.dry) =>
          /\ last'.ret = find_unanchored(units)
          /\ Ids(units') = Ids(units)
          /\ \A i \in Ids(units) \ Range(last'.ret) :
                /\ units'[i] = units[i]
                /\ tags_column(units', rows', i) = tags_column(units, rows, i)
          /\ \A i \in Range(last'.ret) :
                /\ ~sqlite_get(units', rows', i).raised
                /\ sqlite_get(units', rows', i).unit =
                      {[units[i] EXCEPT
                          !.salience = (@ * DemotionFactor) \div 100,
                          !.tags = @ \cup {"unanchored_demoted"}]}
          /\ Range(find_unanchored(units')) \cap Range(last'.ret) = {}]_vars

(***************************************************************************)
(* The narrative among the operations that read and archive units          *)
(***************************************************************************)
NextNarrative ==
    \/ RememberAny
    \/ \E tb \in TieBreaks : Recall("a", "", tb)
    \/ MetabolizeAny
    \/ UpdateNarrativeAny

SpecNarrative == Init /\ [][NextNarrative]_vars

Narratives(st) == {i \in Ids(st) : st[i].type = "narrative"}

\* the narrative written last: ids are drawn in order
PreviousNarrative(st) == CHOOSE i \in Narratives(st) : \A j \in Narratives(st) : j <= i

(***************************************************************************)
(* C37: after any sequence of successful update_narrative calls           *)
(* interleaved with remember, recall and metabolize, exactly one          *)
(* narrative unit is active; each new narrative has version = previous    *)
(* version + 1 and prev_hash = the previous narrative's content_hash, so  *)
(* versions strictly increase.                                            *)
(***************************************************************************)
C37_OneActiveVersionedNarrative ==
    /\ [](Narratives(units) # {} =>
             Cardinality({i \in Narratives(units) : units[i].active}) = 1)
    /\ [][(last'.op = "update_narrative" /\ last'.parsed /\ Narratives(units) # {}) =>
             /\ units'[last'.id].version = units[PreviousNarrative(units)].version + 1
             /\ units'[last'.id].prev_hash = content_hash(units[PreviousNarrative(units)])
             /\ \A i \in Narratives(units) :
                   units[i].version < units'[last'.id].version]_vars

(***************************************************************************)
(* The LLM returning null                                                  *)
(***************************************************************************)
\* update_narrative when self.llm(prompt) returns None without raising: the
\* current narrative is deactivated, then embed(None) raises or, with the
\* hash embedder, formats it (embedded) and a unit without content is stored
UpdateNarrativeNull(embedded, tb) ==
    /\ llmOn
    /\ embedded => nextId <= MaxUnits
    /\ \E current \in {get_current_narrative(units, tb)} :
       \E unit \in {[MemoryUnit(nextId, now, "narrative", "", "None")
                       EXCEPT !.salience = 100,
                              !.tags = {"self", "identity", "narrative"},
                              !.version = IF current # 0 THEN units[current].version + 1
                                          ELSE 1,
                              !.prev_hash = IF current # 0
                                            THEN content_hash(units[current])
                                            ELSE NoHash]} :
       \E st1 \in {IF current # 0 THEN deactivate(units, current) ELSE units} :
       /\ IF embedded
          THEN /\ units' = store(st1, unit)
               /\ nextId' = nextId + 1
               /\ now' = now + 1
               /\ last' = [Result("update_narrative") EXCEPT
                              !.id = unit.id, !.arg = current, !.called = TRUE]
          ELSE /\ units' = st1
               /\ UNCHANGED <<nextId, now>>
               /\ last' = [Result("update_narrative") EXCEPT
                              !.arg = current, !.called = TRUE]
       /\ UNCHANGED <<newCount, earned, packages, naclOK, llmOn, rows, calls, fired>>

UpdateNarrativeNullAny ==
    \E embedded \in BOOLEAN, tb \in TieBreaks : UpdateNarrativeNull(embedded, tb)

\* the operations that call the LLM, with every answer it can give
NextUnavailable ==
    \/ RememberAny
    \/ WakeupConsolidateAny
    \/ DreamAny
    \/ UpdateNarrativeAny
    \/ UpdateNarrativeNullAny
    \/ \E tb \in TieBreaks : Recall("b", "", tb)

InitUnavailable ==
    /\ InitFresh
    /\ naclOK

SpecUnavailable == InitUnavailable /\ [][NextUnavailable]_vars

(***************************************************************************)
(* C38: when the LLM is unavailable (no llm function, the call raises, or *)
(* it returns null), consolidate_batch and dream return [],               *)
(* update_narrative returns None and recall still returns its results;    *)
(* in each case no unit is created or deactivated, the current narrative  *)
(* stays active and no episode is marked consolidated.                    *)
(***************************************************************************)
C38_UnavailableLLMChangesNothing ==
    [][(\/ last'.op \in {"wakeup_consolidate", "dream", "update_narrative"}
              /\ ~last'.parsed
        \/ last'.op = "recall" /\ ~llmOn) =>
          /\ last'.op # "recall" => (last'.ret = <<>> /\ last'.id = 0)
          /\ last'.op = "recall" =>
                \E tb \in TieBreaks :
                   last'.ret = retrieve(units, last'.query, TopK, "", 0, tb).results
          /\ Ids(units') = Ids(units)
          /\ \A i \in Ids(units) :
                /\ units'[i].active = units[i].active
                /\ units'[i].consolidated_ts = units[i].consolidated_ts]_vars

\* the units a step deactivated: active before it, or created by it, and
\* inactive after it
Deactivated(st, st1) ==
    {i \in Ids(st1) : ~st1[i].active /\ (i \in Ids(st) => st[i].active)}

Contradicting(facts) ==
    {k \in 1..Len(facts) : facts[k].content # "" /\ facts[k].contradicts # ""}

(***************************************************************************)
(* C39: for the distilled facts with a non-empty contradicts field,       *)
(* consolidate_batch deactivates at most one unit per fact, and only an   *)
(* active semantic unit that existed before this batch whose similarity   *)
(* to the contradiction description is > 0.75; it never deactivates a     *)
(* unit of another kind nor a semantic unit created earlier in the same   *)
(* batch.                                                                  *)
(***************************************************************************)
C39_ContradictionRetiresOlderBelief ==
    [][(last'.op = "consolidate_batch" /\ last'.parsed) =>
          /\ Cardinality(Deactivated(units, units')) <=
                Cardinality(Contradicting(last'.arg))
          /\ \A d \in Deactivated(units, units') :
                /\ d \in Ids(units)
                /\ units[d].type = "semantic"
                /\ units[d].active
                /\ \E k \in Contradicting(last'.arg) :
                      Sim(last'.arg[k].contradicts, units[d].embedding) > 75]_vars

(***************************************************************************)
(* Repeated wakeup_consolidate cycles with an LLM that always answers with *)
(* a parseable array                                                       *)
(***************************************************************************)
ParsedOutputsIf(called) == {out \in OutputsIf(called) : called => out.ok}

RememberParsedAny ==
    \E in \in RememberInputs :
        \E out \in ParsedOutputsIf(MicroRuns(in[2])), tb \in TieBreaksIf(MicroRuns(in[2])) :
            Remember(in[1], in[2], in[3], out, tb)

WakeupConsolidateParsedAny ==
    \E out \in ParsedOutputsIf(check_wakeup(units) # <<>> /\ llmOn),
       tb \in TieBreaksIf(check_wakeup(units) # <<>> /\ llmOn) :
        WakeupConsolidate(out, tb)

NextCycles ==
    \/ RememberParsedAny
    \/ WakeupConsolidateParsedAny
    \/ Metabolize(FALSE, "lo")

\* wakeup_consolidate is called again and again
SpecCycles == Init /\ [][NextCycles]_vars /\ WF_vars(WakeupConsolidateParsedAny)

Unconsolidated(st) ==
    {i \in Ids(st) : st[i].type = "episodic" /\ st[i].consolidated_ts = NoTs}

(***************************************************************************)
(* C40: if the LLM always returns a parseable array, then under repeated  *)
(* wakeup_consolidate cycles every episodic unit stored by remember       *)
(* eventually has consolidated_ts set, including the episodes metabolism  *)
(* deactivated before they were consolidated; once none is left           *)
(* unconsolidated, wakeup_consolidate returns [] without calling the LLM. *)
(***************************************************************************)
C40_EveryEpisodeIsConsolidated ==
    /\ \A i \in 1..MaxUnits :
          (i \in Unconsolidated(units)) ~> (i \notin Unconsolidated(units))
    /\ [][(last'.op = "wakeup_consolidate" /\ Unconsolidated(units) = {}) =>
             /\ last'.ret = <<>>
             /\ ~last'.called
             /\ units' = units]_vars
====
